---- MODULE Spec2Model ----
(***************************************************************************)
(* A model of the reservation scraper of vnp-automation-backend.           *)
(*                                                                         *)
(* The repository holds two near-duplicate pipelines:                      *)
(*   src/index.js          the name-keyed variant  (variant = "name")      *)
(*   src/unnamed/part_000  the id-keyed variant    (variant = "id")        *)
(* Both are modelled by the same actions; where they differ the action     *)
(* branches on `variant`.                                                  *)
(*                                                                         *)
(* The portal (the DOM the browser shows), the mail box and the input      *)
(* sheet are the environment: every read of them is a choice from a small  *)
(* set, and every awaited browser call may also throw.                     *)
(***************************************************************************)
EXTENDS Naturals, Sequences, FiniteSets, TLC

VARIABLES
  variant,                  \* "name" (src/index.js) or "id" (src/unnamed/part_000)
  env,                      \* which universe of portal contents (fixed by Init)
  pc,                       \* position of the single thread of control
  sheet,                    \* the input spreadsheet (rows, or Unreadable)
  hotels,                   \* the work list returned by getDataFromSheet
  itemIdx,                  \* for (const item of sheetData)
  chunkIdx,                 \* for (const chunk of item.idList)
  allReservations,          \* the run's accumulator
  pageReservations,         \* processReservationsPage: records of this session
  processedReservationIds,  \* processReservationsPage: the dedup set
  currentPage,              \* processReservationsPage: page counter
  rows,                     \* the rows of the page scan in progress
  rowIdx,                   \* for (const row of rows)
  basicData,                \* row locals ...
  dialog,                   \* the content of the open detail dialog (portal)
  cardData,
  paymentData,
  remainingAmountToCharge,
  amountToRefund,
  retries,
  attempts,                 \* bodies of the extraction loop run for this row (stops at MaxAttempts)
  status,
  remainingBalance,
  closeIdx,                 \* index into closingMethods
  returned,                 \* the value the last processReservationsPage call returned
  file,                     \* the exported spreadsheet: NoFile or its rows
  browser,                  \* "none" | "open" | "closed"
  outcome,                  \* "running" | "returned" | "raised"
  logged,                   \* the modelled message the latest step logged last ("" if none)
  request,                  \* the query of the /api/expedia request and the token file
  response,                 \* the answer of /api/expedia (NoResponse until sent)
  inbox,                    \* what the Gmail API shows to getVerificationCode
  code,                     \* the value getVerificationCode returned
  logDoc,                   \* data.json: the log entries (or UnreadableDoc)
  clock,                    \* Date.now(), in units of half an hour
  tabs,                     \* card-activity tabs opened (browser.newPage) and not closed
  searchInput,              \* processReservationsPage: the candidate selector that matched (0: none)
  typedInto,                \* the selector the term was typed into (0: nothing typed)
  passwordEntry,            \* the password page met by the login and the controls used on it
  nextControl,              \* what hasNextPage last saw of the pagination's next button
  entered,                  \* the property whose page the browser went into last ("": none)
  fetches,                  \* calls of getVerificationCode made by the login
  passcode,                 \* what was typed into input[name="passcode-input"] ("": nothing)
  runs,                     \* the server: how far the handler of each /api/expedia request is
  error                     \* the message of the error loginToExpediaPartner raised

sheetVars == <<sheet, hotels>>
runVars == <<itemIdx, chunkIdx, allReservations, file, browser, outcome, error>>
sessVars == <<pageReservations, processedReservationIds, currentPage, rows, rowIdx, returned>>
rowVars == <<basicData, dialog, cardData, paymentData, remainingAmountToCharge,
             amountToRefund, retries, attempts, status, remainingBalance, closeIdx>>
apiVars == <<request, response, inbox, code>>
logVars == <<logDoc, clock>>
codeVars == <<fetches, passcode>>
serverVars == <<runs>>
browserVars == <<tabs, searchInput, typedInto, passwordEntry, nextControl, entered, codeVars, serverVars>>
vars == <<variant, env, pc, sheetVars, runVars, sessVars, rowVars, logged, apiVars, logVars, browserVars>>

-----------------------------------------------------------------------------
(* Bounds of the model *)

\* longest input sheet of the getDataFromSheet specification
MaxSheetRows == 3
\* longest input sheet of a whole run
RunSheetRows == 2

\* JavaScript's null / undefined, for string-valued and object-valued places
NullStr == "<null>"
Null == [isNull |-> TRUE]

Falsy(s) == s \in {"", NullStr}
Truthy(s) == ~Falsy(s)
\* a || b on strings
Or(a, b) == IF Truthy(a) THEN a ELSE b

-----------------------------------------------------------------------------
(* getDataFromSheet *)

\* Property keys a sheet row can hold: empty (defval ""), ordinary names, and
\* a name that is also a member of Object.prototype ("constructor",
\* "toString", ...): hashMap is a plain object literal, so hashMap[key] finds
\* the inherited member for such a key.
PropKeys == {"", "P1", "P2", "constructor"}
ProtoKeys == {"constructor"}
ResIds == {"A", "B"}
Unreadable == <<[unreadable |-> TRUE]>>

SheetRows == [prop : PropKeys, res : ResIds]

RECURSIVE SeqsUpTo(_, _)
SeqsUpTo(S, n) ==
  IF n = 0 THEN {<<>>}
  ELSE LET shorter == SeqsUpTo(S, n - 1)
       IN shorter \cup {Append(s, x) : s \in {t \in shorter : Len(t) = n - 1}, x \in S}

\* the state of the loop of getDataFromSheet
LoopInit == [hashMap |-> <<>>, hotels |-> <<>>, cnt |-> 0, threw |-> FALSE]

\* hashMap[key] is truthy: an own entry (a count >= 1), or a member inherited
\* from Object.prototype
HashTruthy(hashMap, key) == key \in DOMAIN hashMap \/ key \in ProtoKeys

\* hotels.push({ name | id: key, idList: [res] })
PushHotel(hs, key, res) == Append(hs, [key |-> key, idList |-> <<res>>])

\* a grouping that puts a later id in front (what C4 excludes)
PushIdFront(hs, n, res) == [hs EXCEPT ![n].idList = <<res>> \o @]

\* hotels[n - 1].idList.push(res)
PushId(hs, n, res) == [hs EXCEPT ![n].idList = Append(@, res)]

\* one iteration of  for (const item of sheetData)
LoopStep(st, item) ==
  IF st.threw THEN st
  ELSE IF Falsy(item.prop) THEN st                      \* continue
  ELSE IF ~HashTruthy(st.hashMap, item.prop)
    THEN [st EXCEPT !.cnt = st.cnt + 1,
                    !.hashMap = [k \in DOMAIN st.hashMap \cup {item.prop} |->
                                   IF k = item.prop THEN st.cnt + 1 ELSE st.hashMap[k]],
                    !.hotels = PushHotel(st.hotels, item.prop, item.res)]
    ELSE IF item.prop \in DOMAIN st.hashMap
    THEN [st EXCEPT !.hotels = PushId(st.hotels, st.hashMap[item.prop], item.res)]
    \* hashMap[key] is an inherited function: hotels[Function - 1] is
    \* hotels[NaN], undefined, and reading .idList of it throws a TypeError
    ELSE [st EXCEPT !.threw = TRUE]

RECURSIVE LoopOver(_, _)
LoopOver(st, items) ==
  IF items = <<>> THEN st ELSE LoopOver(LoopStep(st, Head(items)), Tail(items))

\* a sheet whose only row has no property key
BlankSheet == <<[prop |-> "", res |-> "A"]>>

\* a grouping that makes a work item of a row without a key (what C39 excludes)
getDataFromSheetKeepsBlank(sh) ==
  IF sh = Unreadable THEN <<>>
  ELSE [i \in 1..Len(sh) |-> [key |-> sh[i].prop, idList |-> <<sh[i].res>>]]

getDataFromSheet(sh) ==
  IF sh = Unreadable THEN <<>>                          \* readFile throws: catch, return []
  ELSE IF Len(sh) = 0 THEN <<>>                         \* sheetData.length === 0
  ELSE LET st == LoopOver(LoopInit, sh)
       IN IF st.threw THEN <<>> ELSE st.hotels          \* catch (error) return []

-----------------------------------------------------------------------------
(* The portal: what a detail dialog can contain *)

\* What the selectors of the extraction code find in one open detail dialog.
\* A value "" stands for "element absent or empty" (the code's  ?. ... || "").
DialogsAll ==
  [cancelled : BOOLEAN,                        \* .fds-dialog-title has Cancelled/Canceled
   cancelFee : {"", "50.00"},                  \* value under "Cancellation fee"
   evc : BOOLEAN,                              \* .evcCardBase exists
   badge : {"None", "Active"},                 \* its status badge ('None' when absent)
   cardNumber : {"", "4111"},
   additionalText : {"", "note"},
   totalGuestPayment : {"", "100.00"},
   expediaCompensation : {"", "5.00"},
   totalPayout : {"", "95.00"},
   remaining : {"", "12.50"},                  \* "Remaining amount to charge"
   refund : {"", "7.00"}]                      \* "Amount to refund"

NoDialog == [closed |-> TRUE]

\* the fields of a table row, read by the first page.evaluate of the row loop
BasicDataOf(id) ==
  [guestName |-> "Guest", reservationId |-> id, confirmationCode |-> "CC",
   checkInDate |-> "2024-01-01", checkOutDate |-> "2024-01-02", roomType |-> "King",
   bookingAmount |-> "100.00", bookedDate |-> "2023-12-01"]

\* { ...a, ...b }
Merge(a, b) ==
  [f \in DOMAIN a \cup DOMAIN b |-> IF f \in DOMAIN b THEN b[f] ELSE a[f]]

\* ...(x || {})
Spread(x) == IF x = Null THEN <<>> ELSE x

\* res.f for a string field (undefined when the record has no such field)
Get(res, f) == IF f \in DOMAIN res THEN res[f] ELSE NullStr
\* res.f ? ... for a boolean field
GetBool(res, f) == f \in DOMAIN res /\ res[f]

\* the card-data evaluate of the retry loop
CardOf(v, d) ==
  IF Falsy(d.cardNumber) THEN Null
  ELSE IF v = "name"
  THEN [cardNumber |-> d.cardNumber, expiryDate |-> "12/30", cvv |-> "123"]
  \* id variant: `status` inside the evaluated function is the page's
  \* window.status (""), not the Node variable
  ELSE [cardNumber |-> d.cardNumber, expiryDate |-> "12/30", cvv |-> "123",
        status |-> "", additionalText |-> d.additionalText]

\* a payment evaluate that takes any of the four labelled values (what the
\* two variants do not do)
PaymentOfAnyValue(v, d) ==
  IF Truthy(d.totalGuestPayment) \/ Truthy(d.cancelFee)
       \/ Truthy(d.expediaCompensation) \/ Truthy(d.totalPayout)
  THEN [totalGuestPayment |-> d.totalGuestPayment,
        cancellationFee |-> d.cancelFee,
        expediaCompensation |-> d.expediaCompensation,
        totalPayout |-> d.totalPayout]
  ELSE Null

\* the payment-data evaluate of the retry loop
PaymentOf(v, d) ==
  IF v = "name"
  THEN IF Truthy(d.totalGuestPayment)
       THEN [totalGuestPayment |-> d.totalGuestPayment,
             expediaCompensation |-> d.expediaCompensation,
             totalPayout |-> d.totalPayout]
       ELSE Null
  ELSE IF Truthy(d.cancelFee) \/ Truthy(d.expediaCompensation) \/ Truthy(d.totalPayout)
       THEN [totalGuestPayment |-> d.totalGuestPayment,
             cancellationFee |-> d.cancelFee,
             expediaCompensation |-> d.expediaCompensation,
             totalPayout |-> d.totalPayout]
       ELSE Null

\* cardData?.additionalText
AdditionalTextOf(cd) ==
  IF cd # Null /\ "additionalText" \in DOMAIN cd THEN cd.additionalText ELSE NullStr

\* a resolution that prefers the refund (what C9 excludes)
AmountRefundFirst(v, cd, rem, ref) == Or(ref, Or(rem, "N/A"))

\* amountToChargeOrRefund of the record pushed after the retry loop
AmountToChargeOrRefund(v, cd, rem, ref) ==
  IF v = "name" THEN Or(rem, Or(ref, "N/A"))
  ELSE Or(AdditionalTextOf(cd), Or(rem, Or(ref, "N/A")))

\* reasonOfCharge of the record pushed after the retry loop (name variant)
ReasonOfCharge(rem, ref) ==
  IF Truthy(rem) THEN "Remaining Amount to Charge"
  ELSE IF Truthy(ref) THEN "Amount to Refund" ELSE "N/A"

\* a record whose two flags are exchanged (what C20 excludes)
NormalRecordFlagsSwapped(v, bd, cd, pd, rem, ref, st, bal, propId, propInfo) ==
  Merge(Merge(Merge(bd, Spread(cd)), Spread(pd)),
    [propertyId |-> propId, propertyName |-> Or(propInfo, propId),
     hasCardInfo |-> pd # Null, hasPaymentInfo |-> cd # Null,
     remainingAmountToCharge |-> Or(rem, "N/A"),
     amountToRefund |-> Or(ref, "N/A"),
     amountToChargeOrRefund |-> AmountToChargeOrRefund(v, cd, rem, ref),
     reasonOfCharge |-> ReasonOfCharge(rem, ref),
     status |-> st, amount |-> bal])

\* the record pushed at the end of a row's try block
NormalRecord(v, bd, cd, pd, rem, ref, st, bal, propId, propInfo) ==
  LET base == Merge(Merge(bd, Spread(cd)), Spread(pd)) IN
  IF v = "name"
  THEN Merge(base,
         [hasCardInfo |-> cd # Null, hasPaymentInfo |-> pd # Null,
          remainingAmountToCharge |-> Or(rem, "N/A"),
          amountToRefund |-> Or(ref, "N/A"),
          amountToChargeOrRefund |-> AmountToChargeOrRefund(v, cd, rem, ref),
          reasonOfCharge |-> ReasonOfCharge(rem, ref)])
  ELSE Merge(base,
         [propertyId |-> propId, propertyName |-> Or(propInfo, propId),
          hasCardInfo |-> cd # Null, hasPaymentInfo |-> pd # Null,
          remainingAmountToCharge |-> Or(rem, "N/A"),
          amountToRefund |-> Or(ref, "N/A"),
          amountToChargeOrRefund |-> AmountToChargeOrRefund(v, cd, rem, ref),
          status |-> st, amount |-> bal])

\* getCurrencyValue(title) of the cancellation branch: "0.00" when the section
\* or its value cell is missing
GetCurrencyValue(val) == IF val = "" THEN "0.00" ELSE val

\* canceledReservation (name variant only)
CanceledRecord(bd, d) ==
  Merge(bd,
    [cardNumber |-> "N/A", expiryDate |-> "N/A", cvv |-> "N/A",
     hasCardInfo |-> FALSE, hasPaymentInfo |-> TRUE,
     totalGuestPayment |-> "0.00",
     cancellationFee |-> GetCurrencyValue(d.cancelFee),
     expediaCompensation |-> GetCurrencyValue(d.expediaCompensation),
     totalPayout |-> GetCurrencyValue(d.totalPayout),
     amountToChargeOrRefund |-> GetCurrencyValue(d.cancelFee),
     reasonOfCharge |-> "Cancellation Fee",
     status |-> "Cancelled"])

\* where the retry loop goes when its condition is evaluated
\*   name: while (!cardData && !paymentData && retries < 3)
\*   id:   while (retries < 3)
MaxRetries == 3
LoopHead(v, cd, pd, r) ==
  IF v = "name"
  THEN IF cd = Null /\ pd = Null /\ r < MaxRetries THEN "exCard" ELSE "close"
  ELSE IF r < MaxRetries THEN "exEvc" ELSE "close"

-----------------------------------------------------------------------------
(* getVerificationCode *)

\* most messages one listing shows in the model (the call asks for at most 5)
MaxMessages == 2

\* A snippet is a sequence of words (maximal runs of word characters); a word
\* is its text with the number of its digits and of its other word characters
W5 == [text |-> "12345", digits |-> 5, others |-> 0]
W6 == [text |-> "123456", digits |-> 6, others |-> 0]
W6b == [text |-> "777777", digits |-> 6, others |-> 0]
W10 == [text |-> "1234567890", digits |-> 10, others |-> 0]
W11 == [text |-> "12345678901", digits |-> 11, others |-> 0]
WMix == [text |-> "a654321", digits |-> 6, others |-> 1]
WText == [text |-> "code", digits |-> 0, others |-> 4]

Snippets ==
  {<<>>, <<WText>>, <<W5, W11>>, <<WMix>>, <<WText, W6>>, <<W6b, W6>>,
   <<W10>>, <<W5, W6b>>}

\* a message whose data has no snippet: body.match throws a TypeError
NoSnippet == <<[missing |-> TRUE]>>

\* what gmail.users.messages.get gives for one listed message
Messages ==
  {[getThrows |-> TRUE, snippet |-> <<>>]}
    \cup [getThrows : {FALSE}, snippet : Snippets \cup {NoSnippet}]

\* what gmail.users.messages.list gives; an empty messages stands for a
\* response without the messages field
Inboxes ==
  {[listThrows |-> TRUE, messages |-> <<>>]}
    \cup [listThrows : {FALSE}, messages : SeqsUpTo(Messages, MaxMessages)]

\* a pattern that takes any word with six digits or more (what C16 excludes)
WordMatchesLoose(w) == w.digits >= 6

\* /\b\d{6,10}\b/ on one word: the word is all digits, 6 to 10 of them
WordMatches(w) == w.others = 0 /\ w.digits >= 6 /\ w.digits <= 10

\* body.match(/\b\d{6,10}\b/): the first matching word, or null
RECURSIVE CodeMatch(_)
CodeMatch(body) ==
  IF body = <<>> THEN NullStr
  ELSE IF WordMatches(Head(body)) THEN Head(body).text
  ELSE CodeMatch(Tail(body))

\* for (const msg of res.data.messages): an exception anywhere reaches the
\* catch, which returns null
RECURSIVE ScanMessages(_)
ScanMessages(msgs) ==
  IF msgs = <<>> THEN NullStr
  ELSE IF Head(msgs).getThrows \/ Head(msgs).snippet = NoSnippet THEN NullStr
  ELSE IF CodeMatch(Head(msgs).snippet) # NullStr THEN CodeMatch(Head(msgs).snippet)
  ELSE ScanMessages(Tail(msgs))

\* a function without its catch: the error comes out as a value (what C17
\* excludes)
getVerificationCodeNoCatch(ib) ==
  IF ib.listThrows THEN "Error fetching emails"
  ELSE IF ib.messages = <<>> THEN NullStr
  ELSE ScanMessages(ib.messages)

getVerificationCode(ib) ==
  IF ib.listThrows THEN NullStr            \* catch (error) return null
  ELSE IF ib.messages = <<>> THEN NullStr  \* !res.data.messages
  ELSE ScanMessages(ib.messages)

GoodInbox == [listThrows |-> FALSE, messages |-> <<[getThrows |-> FALSE, snippet |-> <<WText, W6>>]>>]
RunInboxes ==
  {GoodInbox,
   [listThrows |-> TRUE, messages |-> <<>>],
   [listThrows |-> FALSE, messages |-> <<>>],
   [listThrows |-> FALSE, messages |-> <<[getThrows |-> TRUE, snippet |-> <<>>],
                                          [getThrows |-> FALSE, snippet |-> <<W6>>]>>],
   [listThrows |-> FALSE, messages |-> <<[getThrows |-> FALSE, snippet |-> <<WMix>>]>>]}

-----------------------------------------------------------------------------
(* The export step *)

NoFile == <<"no file">>

Header(v) ==
  IF v = "name"
  THEN <<"Guest Name", "Reservation ID", "Confirmation Code", "Check-in Date",
         "Check-out Date", "Room Type", "Booking Amount", "Booked Date",
         "Card Number", "Expiry Date", "CVV", "Has Card Info", "Has Payment Info",
         "Total Guest Payment", "Cancellation Fee", "Expedia Compensation",
         "Total Payout", "Amount to charge/refund", "Reason of charge", "Status">>
  ELSE <<"Property ID", "Property Name", "Guest Name", "Reservation ID",
         "Confirmation Code", "Check-in Date", "Check-out Date", "Room Type",
         "Booking Amount", "Booked Date", "Card Number", "Expiry Date", "CVV",
         "Has Card Info", "Has Payment Info", "Total Guest Payment",
         "Cancellation Fee", "Expedia Compensation", "Total Payout", "Details",
         "Status", "Amount to charge/refund">>

YesNo(b) == IF b THEN "Yes" ELSE "No"

\* allReservations.map((res) => [...]) : one sheet row of a record
ExportRow(v, res) ==
  IF v = "name"
  THEN <<Get(res, "guestName"), Get(res, "reservationId"), Get(res, "confirmationCode"),
         Get(res, "checkInDate"), Get(res, "checkOutDate"), Get(res, "roomType"),
         Get(res, "bookingAmount"), Get(res, "bookedDate"),
         Or(Get(res, "cardNumber"), "N/A"), Or(Get(res, "expiryDate"), "N/A"),
         Or(Get(res, "cvv"), "N/A"),
         YesNo(GetBool(res, "hasCardInfo")), YesNo(GetBool(res, "hasPaymentInfo")),
         Or(Get(res, "totalGuestPayment"), "N/A"), Or(Get(res, "cancellationFee"), "N/A"),
         Or(Get(res, "expediaCompensation"), "N/A"), Or(Get(res, "totalPayout"), "N/A"),
         Or(Get(res, "amountToChargeOrRefund"), "N/A"),
         Or(Get(res, "reasonOfCharge"), "N/A"), Or(Get(res, "status"), "Active")>>
  ELSE <<Or(Get(res, "propertyId"), "N/A"), Or(Get(res, "propertyName"), "N/A"),
         Get(res, "guestName"), Get(res, "reservationId"), Get(res, "confirmationCode"),
         Get(res, "checkInDate"), Get(res, "checkOutDate"), Get(res, "roomType"),
         Get(res, "bookingAmount"), Get(res, "bookedDate"),
         Or(Get(res, "cardNumber"), "N/A"), Or(Get(res, "expiryDate"), "N/A"),
         Or(Get(res, "cvv"), "N/A"),
         YesNo(GetBool(res, "hasCardInfo")), YesNo(GetBool(res, "hasPaymentInfo")),
         Or(Get(res, "totalGuestPayment"), "N/A"), Or(Get(res, "cancellationFee"), "N/A"),
         Or(Get(res, "expediaCompensation"), "N/A"), Or(Get(res, "totalPayout"), "N/A"),
         Or(Get(res, "amountToChargeOrRefund"), "N/A"),
         Or(Get(res, "status"), "Active"), Or(Get(res, "amount"), "N/A")>>

\* a sheet without the header row (what C10 excludes)
WsDataNoHeader(v, all) == [i \in 1..Len(all) |-> ExportRow(v, all[i])]

\* wsData = [header, ...allReservations.map(...)]
WsData(v, all) == <<Header(v)>> \o [i \in 1..Len(all) |-> ExportRow(v, all[i])]

-----------------------------------------------------------------------------
(* Environments and initial states *)

Variants == {"name", "id"}

\* rows one page scan can show / pages one search can have
MaxRows == 2
MaxPages == 2
RunMaxRows == 1
RunMaxPages == 2

\* reservation ids the result table can show
RowIds == {"r1", "r2"}

PlainDialog ==
  [cancelled |-> FALSE, cancelFee |-> "", evc |-> TRUE, badge |-> "Active",
   cardNumber |-> "4111", additionalText |-> "", totalGuestPayment |-> "",
   expediaCompensation |-> "", totalPayout |-> "", remaining |-> "12.50",
   refund |-> ""]
CancelledDialog ==
  [PlainDialog EXCEPT !.cancelled = TRUE, !.cancelFee = "50.00", !.evc = FALSE,
                      !.badge = "None", !.cardNumber = "", !.remaining = ""]
PaymentDialog ==
  [PlainDialog EXCEPT !.evc = FALSE, !.badge = "None", !.cardNumber = "",
                      !.totalGuestPayment = "100.00", !.totalPayout = "95.00",
                      !.remaining = "", !.refund = "7.00"]
EmptyDialog ==
  [PlainDialog EXCEPT !.evc = FALSE, !.badge = "None", !.cardNumber = "",
                      !.remaining = ""]

\* searchInputSelectors.length
NumSelectors == 4
\* the place in searchInputSelectors of 'input[name="searchInput"]', the
\* selector page.type is called with
TypeSelector == 1

\* the search form of the Reservations page: the candidate selectors that have
\* a visible match, and whether 'input[name="searchInput"]' is in the DOM
SearchPages ==
  {sp \in [visible : SUBSET (1..NumSelectors), namePresent : BOOLEAN] :
     TypeSelector \in sp.visible => sp.namePresent}
UsualSearchPage == [visible |-> 1..NumSelectors, namePresent |-> TRUE]

\* the loop over searchInputSelectors: the first selector with a visible match
FirstVisible(sp) ==
  IF sp.visible = {} THEN 0
  ELSE CHOOSE k \in sp.visible : \A l \in sp.visible : k <= l

\* the element .fds-pagination-showing-result: absent, or a text that matches
\* /of (\d+) Results/ with the number n, or a text that does not
NoSummary == [found |-> FALSE, matches |-> FALSE, n |-> 0]
UsualSummary == [found |-> TRUE, matches |-> TRUE, n |-> 1]
Summaries ==
  {NoSummary, UsualSummary, [found |-> TRUE, matches |-> TRUE, n |-> 7],
   [found |-> TRUE, matches |-> FALSE, n |-> 0]}

\* getTotalResults, once page.$eval found the element
getTotalResults(s) == IF s.matches THEN s.n ELSE 0

\* env names one of three universes; EnvOf gives what the portal can show in it
RowEnv == [dialogs |-> DialogsAll, propertyInfos |-> {"", "Hotel One"},
           balances |-> {"N/A", "25.00"}, ids |-> {"r1"},
           maxRows |-> 1, maxPages |-> 1, inboxes |-> {GoodInbox},
           searchPages |-> {UsualSearchPage}, summaries |-> {UsualSummary}]
ScraperEnv == [dialogs |-> {PlainDialog, CancelledDialog, PaymentDialog, EmptyDialog},
               propertyInfos |-> {"", "Hotel One"}, balances |-> {"N/A", "25.00"},
               ids |-> RowIds, maxRows |-> MaxRows, maxPages |-> MaxPages,
               inboxes |-> {GoodInbox},
               searchPages |-> SearchPages, summaries |-> Summaries]
RunEnv == [dialogs |-> {PlainDialog, CancelledDialog},
           propertyInfos |-> {"Hotel One"}, balances |-> {"N/A"},
           ids |-> {"r1"}, maxRows |-> RunMaxRows, maxPages |-> RunMaxPages,
           inboxes |-> RunInboxes,
           searchPages |-> {UsualSearchPage}, summaries |-> {UsualSummary, NoSummary}]
CodeEnv == [RunEnv EXCEPT !.inboxes = Inboxes]
EnvOf(e) ==
  CASE e = "row" -> RowEnv [] e = "scraper" -> ScraperEnv [] e = "run" -> RunEnv
    [] e = "code" -> CodeEnv

RowSeqs(e) == SeqsUpTo(EnvOf(e).ids, EnvOf(e).maxRows) \ {<<>>}

SessIdle ==
  /\ pageReservations = <<>>
  /\ processedReservationIds = {}
  /\ currentPage = 0
  /\ rows = <<>>
  /\ rowIdx = 0

RowIdle ==
  /\ basicData = Null
  /\ dialog = NoDialog
  /\ cardData = Null
  /\ paymentData = Null
  /\ remainingAmountToCharge = NullStr
  /\ amountToRefund = NullStr
  /\ retries = 0
  /\ attempts = 0
  /\ status = "None"
  /\ remainingBalance = "N/A"
  /\ closeIdx = 0

\* req.query of /api/expedia (is the parameter there?) and the token file
Requests == [email : BOOLEAN, password : BOOLEAN, token : {"ok", "missing", "corrupt"}]
ValidRequest == [email |-> TRUE, password |-> TRUE, token |-> "ok"]
NoResponse == [sent |-> FALSE]
NoInbox == [listThrows |-> FALSE, messages |-> <<>>]
UnreadableDoc == <<[unreadable |-> TRUE]>>

\* no request is being served
ApiIdle ==
  /\ response = NoResponse /\ inbox = NoInbox /\ code = NullStr
  /\ fetches = 0 /\ passcode = ""
\* the login is over: the code of the mail was used
LoggedIn ==
  /\ request = ValidRequest /\ response = NoResponse /\ inbox = GoodInbox /\ code = W6.text
  /\ fetches = 1 /\ passcode = W6.text
LogIdle == logDoc = <<>> /\ clock = 0
\* the password page: which of #password-input (a) and #passwordControl (b)
\* it has; the field the password went into and the control clicked after it
PasswordPages == [a : BOOLEAN, b : BOOLEAN]
\* typed: the fields the password was typed into, wholly or in part
NoPasswordEntry == [a |-> FALSE, b |-> FALSE, field |-> "", submit |-> "", typed |-> {}]
UsualPasswordEntry ==
  [a |-> TRUE, b |-> FALSE, field |-> "#password-input", submit |-> "#password-continue",
   typed |-> {"#password-input"}]

\* no tab besides the main page
BrowserIdle == tabs = 0 /\ searchInput = 0 /\ typedInto = 0 /\ nextControl = "unread" /\ entered = ""

\* the requests the server gets in the model
MaxRequests == 3
\* the handler of a request: not arrived; answered 400 / 401 / 500 before a
\* run; inside loginToExpediaPartner (at puppeteer.launch, logging in with
\* the browser open, scraping); answered after the run returned or raised
Stages == {"none", "rejected", "launching", "login", "scraping", "succeeded", "failed"}
ServerIdle == runs = [i \in 1..MaxRequests |-> "none"]

\* a request to /api/expedia arrives
Init ==
  /\ variant \in Variants
  /\ env = "run"
  /\ pc = "request"
  /\ request \in Requests
  /\ ApiIdle /\ LogIdle /\ BrowserIdle /\ ServerIdle
  /\ passwordEntry = NoPasswordEntry
  /\ sheet \in SeqsUpTo([prop : {"P1", "P2"}, res : {"A"}], RunSheetRows)
               \cup {Unreadable, BlankSheet}
  /\ hotels = <<>>
  /\ itemIdx = 0 /\ chunkIdx = 0
  /\ allReservations = <<>>
  /\ returned = <<>>
  /\ SessIdle /\ RowIdle
  /\ file = NoFile /\ browser = "none" /\ outcome = "running" /\ error = NullStr /\ logged = ""

\* the login stands before  const code = await getVerificationCode()
InitCode ==
  /\ variant \in Variants
  /\ env = "code"
  /\ pc = "fetchCode"
  /\ request = ValidRequest
  /\ ApiIdle /\ LogIdle /\ BrowserIdle /\ ServerIdle
  /\ passwordEntry = UsualPasswordEntry
  /\ sheet = <<[prop |-> "P1", res |-> "A"]>>
  /\ hotels = <<>>
  /\ itemIdx = 0 /\ chunkIdx = 0
  /\ allReservations = <<>>
  /\ returned = <<>>
  /\ SessIdle /\ RowIdle
  /\ file = NoFile /\ browser = "open" /\ outcome = "running" /\ error = NullStr /\ logged = ""

\* one call of getDataFromSheet on an arbitrary sheet
InitSheet ==
  /\ LoggedIn /\ LogIdle /\ BrowserIdle /\ ServerIdle
  /\ passwordEntry = UsualPasswordEntry
  /\ variant \in Variants
  /\ env = "run"
  /\ pc = "getData"
  /\ sheet \in SeqsUpTo(SheetRows, MaxSheetRows) \cup {Unreadable}
  /\ hotels = <<>>
  /\ itemIdx = 0 /\ chunkIdx = 0
  /\ allReservations = <<>>
  /\ returned = <<>>
  /\ SessIdle /\ RowIdle
  /\ file = NoFile /\ browser = "open" /\ outcome = "running" /\ error = NullStr /\ logged = ""

\* one call of processReservationsPage (one search term of one property)
InitScraper ==
  /\ LoggedIn /\ LogIdle /\ BrowserIdle /\ ServerIdle
  /\ passwordEntry = UsualPasswordEntry
  /\ variant \in Variants
  /\ env = "scraper"
  /\ pc = "search"
  /\ sheet = <<[prop |-> "P1", res |-> "A"]>>
  /\ hotels = getDataFromSheet(sheet)
  /\ itemIdx = 1 /\ chunkIdx = 1
  /\ allReservations = <<>>
  /\ returned = <<>>
  /\ SessIdle /\ RowIdle
  /\ file = NoFile /\ browser = "open" /\ outcome = "running" /\ error = NullStr /\ logged = ""

\* one row of the row loop, from the click on its guest name on, against
\* every dialog content
InitRow ==
  /\ LoggedIn /\ LogIdle /\ BrowserIdle /\ ServerIdle
  /\ passwordEntry = UsualPasswordEntry
  /\ variant \in Variants
  /\ env = "row"
  /\ pc = "click"
  /\ sheet = <<[prop |-> "P1", res |-> "A"]>>
  /\ hotels = getDataFromSheet(sheet)
  /\ itemIdx = 1 /\ chunkIdx = 1
  /\ allReservations = <<>>
  /\ returned = <<>>
  /\ pageReservations = <<>>
  /\ processedReservationIds = {"r1"}
  /\ currentPage = 1
  /\ rows = <<"r1">>
  /\ rowIdx = 1
  /\ basicData = BasicDataOf("r1")
  /\ dialog = NoDialog
  /\ cardData = Null
  /\ paymentData = Null
  /\ remainingAmountToCharge = NullStr
  /\ amountToRefund = NullStr
  /\ retries = 0
  /\ attempts = 0
  /\ status = "None"
  /\ remainingBalance = "N/A"
  /\ closeIdx = 0
  /\ file = NoFile /\ browser = "open" /\ outcome = "running" /\ error = NullStr /\ logged = ""

-----------------------------------------------------------------------------
(* Messages of logger.info / logger.warn / logger.error the model keeps *)

LogLoginOk == "Login successful!"
LogCloseWarn == "Warning: Could not close dialog normally"
LogCardSkip == "'See card activity' button not found, skipping"
LogCardOpening == "Opening card activity URL in new tab"
LogCardClosed == "Closed card activity tab"
LogCardWarn == "Error processing card activity"
LogNoSearchInput == "Error processing tab: Could not find search input field"
LogFinalCount == "Final reservation count"
LogTotal(n) == "Total reservations to fetch: " \o ToString(n)
LogRunError == "Error finding/clicking property"
LogNoRows == "No reservations found after multiple attempts"
LogTabError == "Error processing tab"
LogDuplicate == "Skipping duplicate reservation"
LogDialogTimeout == "Dialog did not appear within timeout, skipping to next reservation"
LogCanceledAdded == "Added canceled reservation to results"
LogCancelWarn == "Warning: Could not close canceled reservation dialog"
LogRowError == "Error processing reservation"
LogPageError == "Error processing page"
LogProcessed == "Processed n of m reservations"
LogScrapeDone == "Date scraping completed"
LogLogoWarn == "Could not click navigation logo"
LogSaved == "Saved reservation data"
LogHomeFail == "Failed to navigate to home page"
\* console.error(error.message) of the swallowed navigation error
ConsoleNavError == "console.error: navigation into the property failed"

-----------------------------------------------------------------------------
(* Run Controller and Property Session Orchestrator: loginToExpediaPartner *)

\* app.get("/api/expedia"): the checks before the run
\*   no email or no password          -> 400, success false
\*   loadToken() false                -> 401, success false
\*   loadToken() throws (JSON.parse)  -> catch: 500, success false
Handle ==
  /\ pc = "request"
  /\ IF ~request.email \/ ~request.password
     THEN response' = [sent |-> TRUE, success |-> FALSE, status |-> 400,
                       message |-> "Email, password, and are required"]
          /\ pc' = "responded"
     ELSE IF request.token = "missing"
     THEN response' = [sent |-> TRUE, success |-> FALSE, status |-> 401,
                       message |-> "Gmail authentication required"]
          /\ pc' = "responded"
     ELSE IF request.token = "corrupt"
     THEN response' = [sent |-> TRUE, success |-> FALSE, status |-> 500,
                       message |-> "Unexpected token"]
          /\ pc' = "responded"
     ELSE pc' = "launch" /\ UNCHANGED response
  /\ logged' = ""
  /\ UNCHANGED <<variant, env, logVars, browserVars, sheetVars, runVars, sessVars, rowVars,
                 request, inbox, code>>

\* a handler that answers success whatever the run did (what C18 excludes)
ResponseAlwaysOk(out, err) ==
  [sent |-> TRUE, success |-> TRUE, status |-> 200, message |-> "Successfully processed"]

\* the answer after await loginToExpediaPartner(...)
ResponseOf(out, err) ==
  IF out = "returned"
  THEN [sent |-> TRUE, success |-> TRUE, status |-> 200, message |-> "Successfully processed"]
  ELSE [sent |-> TRUE, success |-> FALSE, status |-> 500, message |-> err]

\* res.json({success: true, ...}) or the catch's res.status(500).json(...)
Respond ==
  /\ pc = "done"
  /\ response' = ResponseOf(outcome, error)
  /\ pc' = "responded"
  /\ logged' = ""
  /\ UNCHANGED <<variant, env, logVars, browserVars, sheetVars, runVars, sessVars, rowVars,
                 request, inbox, code>>

\* messages of the errors the run can raise
ErrTimeout == "TimeoutError"
ErrPassword == "Password input field not found on the page"
ErrNoCode == "Failed to get verification code from email"
ErrNoVerifyButton == "Verify button not found"
ErrVerifyDisabled == "Verify button is disabled"
ErrNoProperty == "Could not find property"
ErrReservations == "Could not find or click Reservations link"
ErrWrite == "writeFile failed"

\* a catch that rethrows without closing the browser (what C12 excludes)
RaiseBrowserOpen(msg) ==
  /\ browser' = browser
  /\ outcome' = "raised"
  /\ error' = msg
  /\ pc' = "done"
  /\ logged' = LogRunError

\* catch (error) { logger.error(...); if (browser) await browser.close(); throw error }
Raise(msg) ==
  /\ browser' = IF browser = "none" THEN "none" ELSE "closed"
  /\ outcome' = "raised"
  /\ error' = msg
  /\ pc' = "done"
  /\ logged' = LogRunError

\* what a login step leaves alone
loginKept == <<variant, env, logVars, browserVars, sheetVars, itemIdx, chunkIdx, allReservations, file,
               sessVars, rowVars, request, response>>
\* the same but for the count of fetches and the 2FA field
codeKept == <<variant, env, logVars, tabs, searchInput, typedInto, passwordEntry, nextControl,
              entered, sheetVars, itemIdx, chunkIdx, allReservations, file, sessVars, rowVars,
              request, response, serverVars>>

\* a login step that went through
LoginStep(next) ==
  /\ pc' = next
  /\ logged' = ""
  /\ UNCHANGED <<browser, outcome, error>>

\* browser = await puppeteer.launch(...)
Launch ==
  /\ pc = "launch"
  /\ \E threw \in BOOLEAN :
       IF threw THEN Raise(ErrTimeout)
       ELSE /\ browser' = "open"
            /\ pc' = "loginPage"
            /\ logged' = ""
            /\ UNCHANGED <<outcome, error>>
  /\ UNCHANGED <<loginKept, inbox, code>>

\* newPage, goto the logon page, scroll, wait for and type the email, continue
OpenLoginPage ==
  /\ pc = "loginPage"
  /\ \E threw \in BOOLEAN :
       IF threw THEN Raise(ErrTimeout) ELSE LoginStep("password")
  /\ UNCHANGED <<loginKept, inbox, code>>

\* how the handling of a password field ends: it goes through, or a call
\* before the typing throws (wait, readiness check, click, clear), or a call
\* after some of the password was typed (typing, verification, submit click)
BlockOutcomes == {"ok", "throwsBeforeTyping", "throwsAfterTyping"}
\* the field a block typed into, given that the field is on the page
TypedInBlock(present, out, field) ==
  IF present /\ out \in {"ok", "throwsAfterTyping"} THEN {field} ELSE {}

\* the password page: #password-input and #password-continue; when any of
\* that throws, #passwordControl and #signInButton; when that throws too, or
\* #passwordControl is not there, the error is raised
EnterPassword ==
  /\ pc = "password"
  /\ \E pg \in PasswordPages, aOut \in BlockOutcomes, bOut \in BlockOutcomes :
       LET aTyped == TypedInBlock(pg.a, aOut, "#password-input")
           bTyped == TypedInBlock(pg.b, bOut, "#passwordControl") IN
       IF pg.a /\ aOut = "ok"
       THEN /\ passwordEntry' = [a |-> pg.a, b |-> pg.b, field |-> "#password-input",
                                 submit |-> "#password-continue", typed |-> aTyped]
            /\ LoginStep("passcodeWait")
       \* the catch of the first block: passwordInputFound = false, whatever threw
       ELSE IF ~pg.b
       THEN /\ passwordEntry' = [a |-> pg.a, b |-> pg.b, field |-> "", submit |-> "",
                                 typed |-> aTyped]
            /\ Raise(ErrPassword)
       ELSE IF bOut # "ok"
       THEN /\ passwordEntry' = [a |-> pg.a, b |-> pg.b, field |-> "", submit |-> "",
                                 typed |-> aTyped \cup bTyped]
            /\ Raise(ErrTimeout)
       ELSE /\ passwordEntry' = [a |-> pg.a, b |-> pg.b, field |-> "#passwordControl",
                                 submit |-> "#signInButton", typed |-> aTyped \cup bTyped]
            /\ LoginStep("passcodeWait")
  /\ UNCHANGED <<variant, env, logVars, tabs, searchInput, typedInto, nextControl, entered, codeVars, serverVars,
                 sheetVars, itemIdx,
                 chunkIdx, allReservations, file, sessVars, rowVars, request, response,
                 inbox, code>>

\* await page.waitForSelector('input[name="passcode-input"]'); delay(15000)
WaitPasscode ==
  /\ pc = "passcodeWait"
  /\ \E threw \in BOOLEAN :
       IF threw THEN Raise(ErrTimeout) ELSE LoginStep("fetchCode")
  /\ UNCHANGED <<loginKept, inbox, code>>

\* a fetch that is repeated once when no code came (what C31 excludes)
FetchCodeRetries ==
  /\ pc = "fetchCode"
  /\ \E ib \in EnvOf(env).inboxes :
       /\ inbox' = ib
       /\ code' = getVerificationCode(ib)
       /\ IF Falsy(getVerificationCode(ib))
          THEN IF fetches = 0 THEN LoginStep("fetchCode") ELSE Raise(ErrNoCode)
          ELSE LoginStep("submit")
  /\ fetches' = fetches + 1
  /\ UNCHANGED <<codeKept, passcode>>

\* const code = await getVerificationCode(); if (!code) throw new Error(...)
FetchCode ==
  /\ pc = "fetchCode"
  /\ \E ib \in EnvOf(env).inboxes :
       /\ inbox' = ib
       /\ code' = getVerificationCode(ib)
       /\ IF Falsy(getVerificationCode(ib)) THEN Raise(ErrNoCode) ELSE LoginStep("submit")
  /\ fetches' = fetches + 1
  /\ UNCHANGED <<codeKept, passcode>>

\* type the code, find the verify button, check it is enabled, click it
SubmitCode ==
  /\ pc = "submit"
  /\ \E out \in {"ok", "typeThrows", "noButton", "disabled", "throws"} :
       /\ passcode' = IF out = "typeThrows" THEN passcode ELSE code
       /\ CASE out = "ok" -> LoginStep("postLogin")
            [] out = "typeThrows" -> Raise(ErrTimeout)
            [] out = "noButton" -> Raise(ErrNoVerifyButton)
            [] out = "disabled" -> Raise(ErrVerifyDisabled)
            [] out = "throws" -> Raise(ErrTimeout)
  /\ UNCHANGED <<codeKept, fetches, inbox, code>>

\* await page.waitForNavigation(...); logger.info("Login successful!")
PostLoginNav ==
  /\ pc = "postLogin"
  /\ \E threw \in BOOLEAN :
       IF threw THEN Raise(ErrTimeout)
       ELSE /\ pc' = "getData"
            /\ logged' = LogLoginOk
            /\ UNCHANGED <<browser, outcome, error>>
  /\ UNCHANGED <<loginKept, inbox, code>>

\* launch, login page, credentials, 2FA code, landing page
Login ==
  \/ Launch \/ OpenLoginPage \/ EnterPassword \/ WaitPasscode \/ FetchCode
  \/ SubmitCode \/ PostLoginNav

\* const sheetData = getDataFromSheet(); const allReservations = []
GetData ==
  /\ pc = "getData"
  /\ hotels' = getDataFromSheet(sheet)
  /\ allReservations' = <<>>
  /\ itemIdx' = 1
  /\ pc' = "item"
  /\ logged' = ""
  /\ UNCHANGED <<variant, env, apiVars, logVars, browserVars, sheet, chunkIdx, file, browser, outcome,
                 error, sessVars, rowVars>>

\* the click into the property or the navigation after it throws
\*   name: catch (error) { console.error(error.message) } and the run goes on
\*   id:   the navigation is awaited in the outer try, whose catch rethrows
\* the properties the portal knows, by the text of the cell the variant
\* looks at (name or id); "P10" contains "P1"
PortalProps == {"P1", "P2", "P10"}
Chars(t) ==
  CASE t = "P1" -> <<"P", "1">> [] t = "P2" -> <<"P", "2">> [] t = "P10" -> <<"P", "1", "0">>
    [] OTHER -> <<t>>
\* the rows of the property table after the key was typed and delay(2000)
MaxListed == 2
Listings == SeqsUpTo(PortalProps, MaxListed)
NoRow == ""

\* idElement.textContent.includes(searchId)
Includes(text, key) ==
  \E i \in 1..Len(Chars(text)) :
    /\ i + Len(Chars(key)) - 1 <= Len(Chars(text))
    /\ SubSeq(Chars(text), i, i + Len(Chars(key)) - 1) = Chars(key)

\* the row whose link is clicked
\*   name: the first .property-cell__property-name of the page, uncompared
\*   id:   the first row whose id cell includes the key
RowToClick(v, ls, key) ==
  IF ls = <<>> THEN NoRow
  ELSE IF v = "name" THEN ls[1]
  ELSE IF \E i \in 1..Len(ls) : Includes(ls[i], key)
       THEN ls[CHOOSE i \in 1..Len(ls) :
                 Includes(ls[i], key) /\ \A j \in 1..(i - 1) : ~Includes(ls[j], key)]
       ELSE NoRow

OnPropertyNavFails ==
  IF variant = "name"
  THEN pc' = "openReservations" /\ logged' = ConsoleNavError
       /\ UNCHANGED <<browser, outcome, error>>
  ELSE Raise(ErrTimeout)

\* search the property list for the item and click into it
ResolveProperty ==
  /\ pc = "item"
  /\ itemIdx <= Len(hotels)
  /\ \E out \in {"ok", "waitThrows", "navFails"}, ls \in Listings :
       LET row == RowToClick(variant, ls, hotels[itemIdx].key) IN
       \* a wait throws; "tbody tr" times out on an empty list
       IF out = "waitThrows" \/ ls = <<>>
       THEN Raise(ErrTimeout) /\ UNCHANGED entered
       \* id: throw new Error("Could not find property with ID: ...")
       ELSE IF row = NoRow
       THEN Raise(ErrNoProperty) /\ UNCHANGED entered
       ELSE IF out = "navFails"
       THEN OnPropertyNavFails /\ UNCHANGED entered
       ELSE /\ entered' = row
            /\ pc' = "openReservations"
            /\ logged' = ""
            /\ UNCHANGED <<browser, outcome, error>>
  /\ UNCHANGED <<variant, env, apiVars, logVars, tabs, searchInput, typedInto, passwordEntry,
                 nextControl, codeVars, serverVars, sheetVars, itemIdx, chunkIdx, allReservations, file,
                 sessVars, rowVars>>

\* a run that goes to the export before the work list is exhausted (what
\* C11 excludes)
ItemsDoneEarly ==
  /\ pc = "item"
  /\ pc' = "export"
  /\ logged' = ""
  /\ UNCHANGED <<variant, env, apiVars, logVars, browserVars, sheetVars, runVars, sessVars, rowVars>>

\* the for loop over sheetData is over
ItemsDone ==
  /\ pc = "item"
  /\ itemIdx > Len(hotels)
  /\ pc' = "export"
  /\ logged' = ""
  /\ UNCHANGED <<variant, env, apiVars, logVars, browserVars, sheetVars, runVars, sessVars, rowVars>>

\* open the drawer's Reservations link and wait for the date filters
OpenReservations ==
  /\ pc = "openReservations"
  /\ \E threw \in BOOLEAN :
       IF threw THEN Raise(ErrReservations) /\ UNCHANGED chunkIdx
       ELSE pc' = "chunk" /\ chunkIdx' = 1 /\ logged' = "" /\ UNCHANGED <<browser, outcome, error>>
  /\ UNCHANGED <<variant, env, apiVars, logVars, browserVars, sheetVars, itemIdx, allReservations, file,
                 sessVars, rowVars>>

\* a loop that takes its terms off the item's idList (what C32 excludes)
CallScraperShifts ==
  /\ pc = "chunk"
  /\ chunkIdx <= Len(hotels[itemIdx].idList)
  /\ hotels' = [hotels EXCEPT ![itemIdx].idList = Tail(@)]
  /\ pc' = "search"
  /\ logged' = ""
  /\ UNCHANGED <<variant, env, apiVars, logVars, browserVars, sheet, runVars, sessVars, rowVars>>

\* const chunkReservations = await processReservationsPage(page, chunk, ...)
CallScraper ==
  /\ pc = "chunk"
  /\ chunkIdx <= Len(hotels[itemIdx].idList)
  /\ pc' = "search"
  /\ logged' = ""
  /\ UNCHANGED <<variant, env, apiVars, logVars, browserVars, sheetVars, runVars, sessVars, rowVars>>

\* a push that puts the new records in front (what C28 excludes)
AppendChunkInFront ==
  /\ pc = "returned"
  /\ allReservations' = returned \o allReservations
  /\ returned' = <<>>
  /\ chunkIdx' = chunkIdx + 1
  /\ pc' = "chunk"
  /\ logged' = ""
  /\ UNCHANGED <<variant, env, apiVars, logVars, browserVars, sheetVars, itemIdx, file, browser,
                 outcome, error, pageReservations, processedReservationIds, currentPage,
                 rows, rowIdx, rowVars>>

\* allReservations.push(...chunkReservations)
AppendChunk ==
  /\ pc = "returned"
  /\ allReservations' = allReservations \o returned
  /\ returned' = <<>>
  /\ chunkIdx' = chunkIdx + 1
  /\ pc' = "chunk"
  /\ logged' = ""
  /\ UNCHANGED <<variant, env, apiVars, logVars, browserVars, sheetVars, itemIdx, file, browser, outcome, error,
                 pageReservations, processedReservationIds, currentPage, rows, rowIdx,
                 rowVars>>

\* the for loop over item.idList is over
ChunksDone ==
  /\ pc = "chunk"
  /\ chunkIdx > Len(hotels[itemIdx].idList)
  /\ pc' = "navHome"
  /\ logged' = ""
  /\ UNCHANGED <<variant, env, apiVars, logVars, browserVars, sheetVars, runVars, sessVars, rowVars>>

\* a return to the property list that gives up the remaining items (what C14
\* excludes)
AfterNavHomeGivesUp ==
  /\ itemIdx' = itemIdx
  /\ pc' = "export"

\* the end of the body of  for (const item of sheetData): the next item
AfterNavHome ==
  /\ itemIdx' = itemIdx + 1
  /\ pc' = "item"

\* back to the property list through the logo; a failure is only logged
NavHome ==
  /\ pc = "navHome"
  /\ \E out \in {"ok", "logoFails", "homeFails"} :
       \* id: the catch of the logo click tries page.goto(home), whose failure
       \* is logged as an error and nothing more
       /\ out = "homeFails" => variant = "id"
       /\ logged' = CASE out = "ok" -> ""
                       [] out = "logoFails" -> LogLogoWarn
                       [] out = "homeFails" -> LogHomeFail
  /\ AfterNavHome
  /\ UNCHANGED <<variant, env, apiVars, logVars, browserVars, sheetVars, chunkIdx, allReservations,
                 file, browser, outcome, error, sessVars, rowVars>>

\* if (allReservations.length > 0) { ... xlsx.writeFile(...) }
Export ==
  /\ pc = "export"
  /\ IF Len(allReservations) > 0
     THEN \E threw \in BOOLEAN :
            IF threw THEN Raise(ErrWrite) /\ UNCHANGED file
            ELSE /\ file' = WsData(variant, allReservations)
                 /\ outcome' = "returned"
                 /\ pc' = "done"
                 /\ logged' = LogSaved
                 /\ UNCHANGED <<browser, error>>
     ELSE /\ outcome' = "returned"
          /\ pc' = "done"
          /\ logged' = ""
          /\ UNCHANGED <<file, browser, error>>
  /\ UNCHANGED <<variant, env, apiVars, logVars, browserVars, sheetVars, itemIdx, chunkIdx, allReservations,
                 sessVars, rowVars>>

-----------------------------------------------------------------------------
(* Reservation Page Scraper: processReservationsPage *)

fixedVars == <<variant, env, sheetVars, runVars, apiVars, logVars, browserVars>>
keptSess == <<pageReservations, processedReservationIds, currentPage, rows, returned>>

\* the block-scoped locals of a row go out of scope
RowReset ==
  /\ basicData' = Null
  /\ dialog' = NoDialog
  /\ cardData' = Null
  /\ paymentData' = Null
  /\ remainingAmountToCharge' = NullStr
  /\ amountToRefund' = NullStr
  /\ retries' = 0
  /\ attempts' = 0
  /\ status' = "None"
  /\ remainingBalance' = "N/A"
  /\ closeIdx' = 0

\* return val  (the locals of the call go out of scope)
Return(val) ==
  /\ returned' = val
  /\ pc' = "returned"
  /\ pageReservations' = <<>>
  /\ processedReservationIds' = {}
  /\ currentPage' = 0
  /\ rows' = <<>>
  /\ rowIdx' = 0
  /\ RowReset

\* continue: the next row of the page scan
ContinueRow ==
  /\ rowIdx' = rowIdx + 1
  /\ pc' = "row"
  /\ RowReset
  /\ UNCHANGED keptSess

\* an exception reaches the catch (error) of the row's try block
ToRowCatch ==
  /\ pc' = "rowCatch"
  /\ logged' = ""
  /\ UNCHANGED <<sessVars, rowVars>>

\* an exception reaches catch (pageError): the rest of the page scan is dropped
ToPageCatch ==
  /\ pc' = "pageCatch"
  /\ rows' = <<>>
  /\ rowIdx' = 0
  /\ RowReset
  /\ UNCHANGED <<pageReservations, processedReservationIds, currentPage, returned>>

\* a zero-row search that returns a row all the same (what C6 excludes)
OnZeroRowsReturnsRows ==
  /\ Return(<<BasicDataOf("r1")>>)
  /\ logged' = LogNoRows

\* if (finalCount === 0) { logger.info(...); return [] }
OnZeroRows ==
  /\ Return(<<>>)
  /\ logged' = LogNoRows

\* find the search input, type the term, save, count the rows
SearchTerm ==
  /\ pc = "search"
  /\ \E sp \in EnvOf(env).searchPages, out \in {"throw", "zero", "rows"} :
       /\ searchInput' = FirstVisible(sp)
       /\ IF FirstVisible(sp) = 0
          \* throw new Error("Could not find search input field")
          THEN typedInto' = 0 /\ Return(<<>>) /\ logged' = LogNoSearchInput
          \* page.type('input[name="searchInput"]', ...) finds no element
          ELSE IF ~sp.namePresent
          THEN typedInto' = 0 /\ Return(<<>>) /\ logged' = LogTabError
          \* a selector-1 element that is in the DOM but was not visible takes
          \* the keys when it can be focused; else they go to the clicked field
          ELSE /\ typedInto' \in {TypeSelector, FirstVisible(sp)}
               /\ CASE out = "throw" -> Return(<<>>) /\ logged' = LogTabError
                    [] out = "zero" -> OnZeroRows
                    [] out = "rows" ->
                         /\ pageReservations' = <<>>
                         /\ processedReservationIds' = {}
                         /\ currentPage' = 0
                         /\ pc' = "total"
                         /\ logged' = LogFinalCount
                         /\ UNCHANGED <<rows, rowIdx, returned, rowVars>>
  /\ UNCHANGED <<variant, env, sheetVars, runVars, apiVars, logVars, tabs, passwordEntry,
                 nextControl, entered, codeVars, serverVars>>

\* const totalResults = await getTotalResults(); logger.info(...); then the
\* locals of the paging loop.  page.$eval rejects when the summary element is
\* missing: the call is outside the per-page try, so the function's catch
\* returns [].  searchInput is not read again.
GetTotalResults ==
  /\ pc = "total"
  /\ \E s \in EnvOf(env).summaries :
       IF ~s.found THEN Return(<<>>) /\ logged' = LogTabError
       ELSE /\ currentPage' = 1
            /\ pc' = "page"
            /\ logged' = LogTotal(getTotalResults(s))
            /\ UNCHANGED <<pageReservations, processedReservationIds, rows, rowIdx,
                           returned, rowVars>>
  /\ searchInput' = 0 /\ typedInto' = 0
  /\ UNCHANGED <<variant, env, sheetVars, runVars, apiVars, logVars, tabs, passwordEntry,
                 nextControl, entered, codeVars, serverVars>>

\* top of while (hasMore): wait for the table, read its rows
ScanPage ==
  /\ pc = "page"
  /\ logged' = ""
  /\ \E threw \in BOOLEAN :
       IF threw THEN ToPageCatch
       ELSE \E rs \in RowSeqs(env) :
              /\ rows' = rs
              /\ rowIdx' = 1
              /\ pc' = "row"
              /\ UNCHANGED <<pageReservations, processedReservationIds, currentPage,
                             returned, rowVars>>
  /\ UNCHANGED fixedVars

\* a scraper that never recognises an id (what C1 excludes)
HasNever(S, id) == FALSE

\* processedReservationIds.has(id)
Has(S, id) == id \in S

\* a scan that opens the dialog without noting the id (what C36 excludes)
RowBasicNoAdd ==
  /\ pc = "row"
  /\ rowIdx <= Len(rows)
  /\ \E threw \in BOOLEAN :
       IF threw THEN ToRowCatch
       ELSE LET bd == BasicDataOf(rows[rowIdx]) IN
            IF Has(processedReservationIds, bd.reservationId)
            THEN ContinueRow /\ logged' = LogDuplicate
            ELSE /\ basicData' = bd
                 /\ pc' = "click"
                 /\ logged' = ""
                 /\ UNCHANGED <<sessVars, dialog, cardData, paymentData,
                                remainingAmountToCharge, amountToRefund, retries, attempts,
                                status, remainingBalance, closeIdx>>
  /\ UNCHANGED fixedVars

\* read the row's basic fields; skip a reservation id seen before; add it to
\* the dedup set
RowBasic ==
  /\ pc = "row"
  /\ rowIdx <= Len(rows)
  /\ \E threw \in BOOLEAN :
       IF threw THEN ToRowCatch
       ELSE LET bd == BasicDataOf(rows[rowIdx]) IN
            IF Has(processedReservationIds, bd.reservationId)
            THEN ContinueRow /\ logged' = LogDuplicate
            ELSE /\ processedReservationIds' = processedReservationIds \cup {bd.reservationId}
                 /\ basicData' = bd
                 /\ pc' = "click"
                 /\ logged' = ""
                 /\ UNCHANGED <<pageReservations, currentPage, rows, rowIdx, returned,
                                dialog, cardData, paymentData, remainingAmountToCharge,
                                amountToRefund, retries, attempts, status, remainingBalance, closeIdx>>
  /\ UNCHANGED fixedVars

\* the for loop over rows is over
RowsDone ==
  /\ pc = "row"
  /\ rowIdx > Len(rows)
  /\ pc' = "pageEnd"
  /\ logged' = ""
  /\ UNCHANGED <<fixedVars, sessVars, rowVars>>

\* await guestNameButton.click()
ClickGuestName ==
  /\ pc = "click"
  /\ \E threw \in BOOLEAN :
       IF threw THEN ToRowCatch
       ELSE pc' = "dialogWait" /\ logged' = "" /\ UNCHANGED <<sessVars, rowVars>>
  /\ UNCHANGED fixedVars

\* a dialog wait whose timeout reaches the row's catch (what C7 excludes)
OnDialogTimeoutThrows ==
  /\ pc' = "rowCatch"
  /\ logged' = LogDialogTimeout
  /\ UNCHANGED <<sessVars, rowVars>>

\* catch of the dialog wait: logger.info(...); continue
OnDialogTimeout ==
  /\ ContinueRow
  /\ logged' = LogDialogTimeout

\* Promise.race([waitForSelector(".fds-dialog"), 8 s timeout])
DialogWait ==
  /\ pc = "dialogWait"
  /\ \E appeared \in BOOLEAN :
       IF ~appeared THEN OnDialogTimeout
       ELSE \E d \in EnvOf(env).dialogs :
              /\ dialog' = d
              /\ pc' = IF variant = "name" THEN "isCanceled" ELSE "scroll"
              /\ logged' = ""
              /\ UNCHANGED <<sessVars, basicData, cardData, paymentData,
                             remainingAmountToCharge, amountToRefund, retries, attempts, status,
                             remainingBalance, closeIdx>>
  /\ UNCHANGED fixedVars

\* name variant: const isCanceled = await page.evaluate(...)
IsCanceled ==
  /\ pc = "isCanceled"
  /\ \E threw \in BOOLEAN :
       IF threw THEN ToRowCatch
       ELSE /\ pc' = IF dialog.cancelled THEN "cancelExtract" ELSE "scroll"
            /\ logged' = ""
            /\ UNCHANGED <<sessVars, rowVars>>
  /\ UNCHANGED fixedVars

\* name variant, cancellation branch: wait for header and payment summary,
\* read the three values, push canceledReservation.  An exception here is
\* caught by the branch's own catch, which logs a warning and continues.
CancelExtract ==
  /\ pc = "cancelExtract"
  /\ \E threw \in BOOLEAN :
       IF threw THEN ContinueRow /\ logged' = LogCancelWarn
       ELSE /\ pageReservations' = Append(pageReservations, CanceledRecord(basicData, dialog))
            /\ closeIdx' = 1
            /\ pc' = "cancelClose"
            /\ logged' = LogCanceledAdded
            /\ UNCHANGED <<processedReservationIds, currentPage, rows, rowIdx, returned,
                           basicData, dialog, cardData, paymentData,
                           remainingAmountToCharge, amountToRefund, retries, attempts, status,
                           remainingBalance>>
  /\ UNCHANGED fixedVars

\* the model opens no further card-activity tab beyond this number
MaxTabs == 2

\* closingMethods.length
NumClosingMethods == 4

\* name variant, cancellation branch: one closing method of the for loop, or
\* the throw after the loop.  logger has no debug method: the catch of a
\* throwing method itself throws a TypeError, which the branch's catch logs
\* as a warning before continuing with the next row.
CancelClose ==
  /\ pc = "cancelClose"
  /\ IF closeIdx <= NumClosingMethods
     THEN \E out \in {"closed", "stillOpen", "throw"} :
            CASE out = "stillOpen" ->
                   /\ closeIdx' = closeIdx + 1
                   /\ logged' = ""
                   /\ UNCHANGED <<pc, sessVars, basicData, dialog, cardData, paymentData,
                                  remainingAmountToCharge, amountToRefund, retries, attempts, status,
                                  remainingBalance>>
              [] out = "closed" -> ContinueRow /\ logged' = ""
              [] out = "throw" -> ContinueRow /\ logged' = LogCancelWarn
     \* throw new Error("All dialog closing methods failed"): caught, continue
     ELSE ContinueRow /\ logged' = LogCancelWarn
  /\ UNCHANGED fixedVars

\* scroll the dialog content to its bottom; then the locals of the retry loop
ScrollDialog ==
  /\ pc = "scroll"
  /\ \E threw \in BOOLEAN :
       IF threw THEN ToRowCatch
       ELSE /\ cardData' = Null
            /\ paymentData' = Null
            /\ remainingAmountToCharge' = NullStr
            /\ amountToRefund' = NullStr
            /\ retries' = 0
            /\ attempts' = 0
            /\ status' = "None"
            /\ remainingBalance' = "N/A"
            /\ pc' = IF variant = "id" THEN "cardActivity" ELSE LoopHead(variant, Null, Null, 0)
            /\ logged' = ""
            /\ UNCHANGED <<sessVars, basicData, dialog, closeIdx>>
  /\ UNCHANGED fixedVars

\* id variant: the "See card activity" tab, all inside its own try/catch
\* up to browser.newPage(): the button or its URL is missing, a call throws
\* (caught, warning), or the new tab is there
CardActivity ==
  /\ pc = "cardActivity"
  /\ \E out \in {"skip", "throws", "newPage"} :
       CASE out = "skip" ->
              /\ pc' = LoopHead(variant, cardData, paymentData, retries)
              /\ logged' = LogCardSkip
              /\ UNCHANGED tabs
         [] out = "throws" ->
              /\ pc' = LoopHead(variant, cardData, paymentData, retries)
              /\ logged' = LogCardWarn
              /\ UNCHANGED tabs
         [] out = "newPage" ->
              /\ tabs < MaxTabs
              /\ tabs' = tabs + 1
              /\ pc' = "cardTab"
              /\ logged' = LogCardOpening
  /\ UNCHANGED <<variant, env, sheetVars, runVars, apiVars, logVars, searchInput, typedInto,
                 passwordEntry, nextControl, entered, codeVars, serverVars, sessVars, rowVars>>

\* newPage.goto, the balance evaluate, the screenshot, newPage.close(); a
\* throw of one of the first three goes to the catch, which only warns: the
\* tab stays open
CardTab ==
  /\ pc = "cardTab"
  /\ \E threw \in BOOLEAN, bal \in EnvOf(env).balances :
       IF threw
       THEN /\ logged' = LogCardWarn
            /\ UNCHANGED <<tabs, remainingBalance>>
       ELSE /\ remainingBalance' = bal
            /\ tabs' = tabs - 1
            /\ logged' = LogCardClosed
  /\ pc' = LoopHead(variant, cardData, paymentData, retries)
  /\ UNCHANGED <<variant, env, sheetVars, runVars, apiVars, logVars, searchInput, typedInto,
                 passwordEntry, nextControl, entered, codeVars, serverVars, sessVars, basicData,
                 dialog, cardData, paymentData, remainingAmountToCharge, amountToRefund,
                 retries, attempts, status, closeIdx>>

\* the count of loop bodies stops at MaxAttempts, one more than the loop's
\* bound, however often the body runs
MaxAttempts == 4
Bump(n) == IF n < MaxAttempts THEN n + 1 ELSE n

\* an evaluate of the retry loop throws: catch (e) { retries++; delay }
AttemptThrows ==
  /\ pc \in {"exEvc", "exCard", "exPay", "exSide"}
  /\ retries' = retries + 1
  /\ attempts' = Bump(attempts)
  /\ pc' = LoopHead(variant, cardData, paymentData, retries + 1)
  /\ logged' = ""
  /\ UNCHANGED <<fixedVars, sessVars, basicData, dialog, cardData, paymentData,
                 remainingAmountToCharge, amountToRefund, status, remainingBalance,
                 closeIdx>>

\* id variant: hasEvcCard; if (hasEvcCard.exists) status = hasEvcCard.status
ExEvc ==
  /\ pc = "exEvc"
  /\ status' = IF dialog.evc THEN dialog.badge ELSE status
  /\ pc' = IF dialog.evc THEN "exCard" ELSE "exPay"
  /\ logged' = ""
  /\ UNCHANGED <<fixedVars, sessVars, basicData, dialog, cardData, paymentData,
                 remainingAmountToCharge, amountToRefund, retries, attempts, remainingBalance,
                 closeIdx>>

\* cardData = await page.evaluate(...)
ExCard ==
  /\ pc = "exCard"
  /\ cardData' = CardOf(variant, dialog)
  \* name: if (!cardData) paymentData = ... ; id: always
  /\ pc' = IF variant = "name" /\ CardOf(variant, dialog) # Null THEN "exSide" ELSE "exPay"
  /\ logged' = ""
  /\ UNCHANGED <<fixedVars, sessVars, basicData, dialog, paymentData,
                 remainingAmountToCharge, amountToRefund, retries, attempts, status,
                 remainingBalance, closeIdx>>

\* paymentData = await page.evaluate(...)
ExPay ==
  /\ pc = "exPay"
  /\ paymentData' = PaymentOf(variant, dialog)
  /\ pc' = "exSide"
  /\ logged' = ""
  /\ UNCHANGED <<fixedVars, sessVars, basicData, dialog, cardData,
                 remainingAmountToCharge, amountToRefund, retries, attempts, status,
                 remainingBalance, closeIdx>>

\* additionalPaymentInfo; then the end of the loop body
\*   name: back to the loop condition, retries untouched
\*   id:   break if (cardData || paymentData), else retries++
ExSide ==
  /\ pc = "exSide"
  /\ remainingAmountToCharge' = dialog.remaining
  /\ amountToRefund' = dialog.refund
  /\ attempts' = Bump(attempts)
  /\ IF variant = "name"
     THEN /\ pc' = LoopHead(variant, cardData, paymentData, retries)
          /\ UNCHANGED retries
     ELSE IF cardData # Null \/ paymentData # Null
     THEN /\ pc' = "close"
          /\ UNCHANGED retries
     ELSE /\ retries' = retries + 1
          /\ pc' = LoopHead(variant, cardData, paymentData, retries + 1)
  /\ logged' = ""
  /\ UNCHANGED <<fixedVars, sessVars, basicData, dialog, cardData, paymentData,
                 status, remainingBalance, closeIdx>>

\* click the dialog's close button; a failure is only a warning
CloseDialog ==
  /\ pc = "close"
  /\ pc' = "push"
  /\ \E threw \in BOOLEAN : logged' = IF threw THEN LogCloseWarn ELSE ""
  /\ UNCHANGED <<fixedVars, sessVars, rowVars>>

\* (id: read the property name from the header;) pageReservations.push({...})
PushRecord ==
  /\ pc = "push"
  /\ \E threw \in BOOLEAN, info \in EnvOf(env).propertyInfos :
       IF threw /\ variant = "id" THEN ToRowCatch
       ELSE /\ pageReservations' =
                 Append(pageReservations,
                        NormalRecord(variant, basicData, cardData, paymentData,
                                     remainingAmountToCharge, amountToRefund, status,
                                     remainingBalance, hotels[itemIdx].key, info))
            /\ rowIdx' = rowIdx + 1
            /\ pc' = "row"
            /\ RowReset
            /\ logged' = ""
            /\ UNCHANGED <<processedReservationIds, currentPage, rows, returned>>
  /\ UNCHANGED fixedVars

\* catch (error) of the row: logger.info(...); if (basicData) ...
\* basicData is a const of the try block and is not in scope here: reading
\* it throws a ReferenceError, which leaves the row loop for catch (pageError)
RowCatch ==
  /\ pc = "rowCatch"
  /\ ToPageCatch
  /\ logged' = LogRowError
  /\ UNCHANGED fixedVars

\* the button .fds-pagination-button.next button as the page shows it
NextControls == {"absent", "disabled", "enabled"}

\* a check that says yes whatever the button is (what C27 excludes)
hasNextPageAlways(ctl) == TRUE

\* nextButton && !nextButton.disabled
hasNextPage(ctl) == ctl = "enabled"

\* after the row loop: log the progress, look for an enabled next button
PageEnd ==
  /\ pc = "pageEnd"
  /\ \E ctl \in NextControls, out \in {"evalThrows", "clickThrows", "ok"} :
       \* the last page of the portal has no enabled next button
       /\ ctl = "enabled" => currentPage < EnvOf(env).maxPages
       /\ IF out = "evalThrows"
          THEN ToPageCatch /\ logged' = LogProcessed /\ UNCHANGED nextControl
          ELSE /\ nextControl' = ctl
               /\ IF hasNextPage(ctl)
                  THEN IF out = "clickThrows"
                       THEN ToPageCatch /\ logged' = LogProcessed
                       ELSE /\ currentPage < EnvOf(env).maxPages
                            /\ currentPage' = currentPage + 1
                            /\ pc' = "page"
                            /\ rows' = <<>>
                            /\ rowIdx' = 0
                            /\ logged' = LogProcessed
                            /\ UNCHANGED <<pageReservations, processedReservationIds,
                                           returned, rowVars>>
                  \* hasMore = false; the loop ends; return pageReservations
                  ELSE Return(pageReservations) /\ logged' = LogScrapeDone
  /\ UNCHANGED <<variant, env, sheetVars, runVars, apiVars, logVars, tabs, searchInput,
                 typedInto, passwordEntry, entered, codeVars, serverVars>>

\* catch (pageError): log, page.reload, and the while loop goes round again;
\* a failing reload reaches the function's catch, which returns []
Reload ==
  /\ pc = "pageCatch"
  /\ \E threw \in BOOLEAN :
       IF threw THEN Return(<<>>) /\ logged' = LogTabError
       ELSE /\ pc' = "page"
            /\ logged' = LogPageError
            /\ UNCHANGED <<sessVars, rowVars>>
  /\ UNCHANGED fixedVars

-----------------------------------------------------------------------------
(* The log document data.json: logger.js and cleanupOldLogs *)

\* time is counted in half hours; 60 * 60 * 1000 ms is two of them
Hour == 2
\* the clock of the model stops here
MaxClock == 4
\* the logger stops appending at this length
MaxLogEntries == 3

LogCleaned == "Cleaned up logs: Removed old entries"
LogCleanupError == "Error cleaning up logs"
LogLine == "Starting login process"

\* new Date(log.timestamp) > oneHourAgo
IsRecent(entry, now) == entry.timestamp > now - Hour

\* data.logs.filter(...)
RECURSIVE FilterLogs(_, _)
FilterLogs(logs, now) ==
  IF logs = <<>> THEN <<>>
  ELSE IF IsRecent(Head(logs), now)
       THEN <<Head(logs)>> \o FilterLogs(Tail(logs), now)
       ELSE FilterLogs(Tail(logs), now)

\* appendToLog: read, parse, push, write; a document that cannot be read or
\* parsed is left as it is (console.error)
appendToLog(doc, entry) ==
  IF doc = UnreadableDoc THEN doc ELSE Append(doc, entry)

\* logger.info(message) at the current time
LoggerInfo ==
  /\ pc = "logs"
  /\ Len(logDoc) < MaxLogEntries
  /\ logDoc' = appendToLog(logDoc, [timestamp |-> clock, level |-> "INFO", message |-> LogLine])
  /\ logged' = LogLine
  /\ UNCHANGED <<variant, env, pc, clock, browserVars, sheetVars, runVars, sessVars, rowVars, apiVars>>

\* the periodic cleanup of src/unnamed/part_000, with the entry its own
\* logger.info or logger.error appends
cleanupOldLogs ==
  /\ pc = "logs"
  /\ variant = "id"
  /\ Len(logDoc) <= MaxLogEntries
  /\ IF logDoc = UnreadableDoc
     THEN /\ logDoc' = appendToLog(logDoc, [timestamp |-> clock, level |-> "ERROR",
                                            message |-> LogCleanupError])
          /\ logged' = LogCleanupError
     ELSE /\ logDoc' = appendToLog(FilterLogs(logDoc, clock),
                                   [timestamp |-> clock, level |-> "INFO",
                                    message |-> LogCleaned])
          /\ logged' = LogCleaned
  /\ UNCHANGED <<variant, env, pc, clock, browserVars, sheetVars, runVars, sessVars, rowVars, apiVars>>

\* half an hour passes
Tick ==
  /\ pc = "logs"
  /\ clock < MaxClock
  /\ clock' = clock + 1
  /\ logged' = ""
  /\ UNCHANGED <<variant, env, pc, logDoc, browserVars, sheetVars, runVars, sessVars, rowVars, apiVars>>

\* the server is up: data.json is the empty document logger.js writes, or a
\* file that does not parse
InitLogs ==
  /\ variant \in Variants
  /\ env = "run"
  /\ pc = "logs"
  /\ request = ValidRequest
  /\ ApiIdle
  /\ logDoc \in {<<>>, UnreadableDoc}
  /\ clock = 0
  /\ BrowserIdle /\ ServerIdle
  /\ passwordEntry = NoPasswordEntry
  /\ sheet = <<[prop |-> "P1", res |-> "A"]>>
  /\ hotels = <<>>
  /\ itemIdx = 0 /\ chunkIdx = 0
  /\ allReservations = <<>>
  /\ returned = <<>>
  /\ SessIdle /\ RowIdle
  /\ file = NoFile /\ browser = "none" /\ outcome = "running" /\ error = NullStr /\ logged = ""

-----------------------------------------------------------------------------
(* The server: handlers of /api/expedia running side by side *)

\* everything but the handlers' stages
serverKept == <<variant, env, pc, logged, apiVars, logVars, tabs, searchInput, typedInto,
                passwordEntry, nextControl, entered, codeVars, sheetVars, runVars, sessVars,
                rowVars>>

\* app.get("/api/expedia", async (req, res) => ...): the handler runs up to
\* its first await; nothing in it looks at another handler's run
Arrive(i) ==
  /\ pc = "server"
  /\ runs[i] = "none"
  /\ \E req \in Requests :
       runs' = [runs EXCEPT ![i] = IF req = ValidRequest THEN "launching" ELSE "rejected"]
  /\ UNCHANGED serverKept

\* browser = await puppeteer.launch(...) settles
Launched(i) ==
  /\ pc = "server"
  /\ runs[i] = "launching"
  /\ \E threw \in BOOLEAN :
       runs' = [runs EXCEPT ![i] = IF threw THEN "failed" ELSE "login"]
  /\ UNCHANGED serverKept

\* the login of the run goes through, or raises
LoginOver(i) ==
  /\ pc = "server"
  /\ runs[i] = "login"
  /\ \E threw \in BOOLEAN :
       runs' = [runs EXCEPT ![i] = IF threw THEN "failed" ELSE "scraping"]
  /\ UNCHANGED serverKept

\* the run returns after the export, or raises; the handler answers
RunOver(i) ==
  /\ pc = "server"
  /\ runs[i] = "scraping"
  /\ \E threw \in BOOLEAN :
       runs' = [runs EXCEPT ![i] = IF threw THEN "failed" ELSE "succeeded"]
  /\ UNCHANGED serverKept

\* the server is up and no request has come
InitServer ==
  /\ variant \in Variants
  /\ env = "run"
  /\ pc = "server"
  /\ request = ValidRequest
  /\ ApiIdle /\ LogIdle /\ BrowserIdle /\ ServerIdle
  /\ passwordEntry = NoPasswordEntry
  /\ sheet = <<[prop |-> "P1", res |-> "A"]>>
  /\ hotels = <<>>
  /\ itemIdx = 0 /\ chunkIdx = 0
  /\ allReservations = <<>>
  /\ returned = <<>>
  /\ SessIdle /\ RowIdle
  /\ file = NoFile /\ browser = "none" /\ outcome = "running" /\ error = NullStr /\ logged = ""

ServerNext == \E i \in 1..MaxRequests : Arrive(i) \/ Launched(i) \/ LoginOver(i) \/ RunOver(i)

LogsNext == LoggerInfo \/ cleanupOldLogs \/ Tick

-----------------------------------------------------------------------------
(* Specifications *)

RowNext ==
  \/ ClickGuestName \/ DialogWait \/ IsCanceled \/ CancelExtract \/ CancelClose
  \/ ScrollDialog \/ CardActivity \/ CardTab \/ AttemptThrows \/ ExEvc \/ ExCard \/ ExPay
  \/ ExSide \/ CloseDialog \/ PushRecord \/ RowCatch

ScraperNext ==
  \/ SearchTerm \/ GetTotalResults \/ ScanPage \/ RowBasic \/ RowsDone \/ PageEnd \/ Reload
  \/ RowNext

Next ==
  \/ Handle \/ Respond
  \/ Login \/ GetData \/ ResolveProperty \/ ItemsDone \/ OpenReservations
  \/ CallScraper \/ AppendChunk \/ ChunksDone \/ NavHome \/ Export
  \/ ScraperNext

\* a whole run of loginToExpediaPartner
Spec == Init /\ [][Next]_vars

\* getDataFromSheet on every sheet of up to MaxSheetRows rows
SpecSheet == InitSheet /\ [][GetData]_vars

\* one call of processReservationsPage
SpecScraper == InitScraper /\ [][ScraperNext]_vars

\* one row against every dialog content
SpecRow == InitRow /\ [][RowNext]_vars

\* the code retrieval of the login, against every mail box
SpecCode == InitCode /\ [][FetchCode]_vars

\* the log document under the logger and the periodic cleanup
SpecLogs == InitLogs /\ [][LogsNext]_vars

\* requests to /api/expedia served side by side
SpecServer == InitServer /\ [][ServerNext]_vars

\* one call of processReservationsPage in which every step that can be taken
\* is eventually taken (the Node event loop runs every continuation)
SpecScraperFair == InitScraper /\ [][ScraperNext]_vars /\ WF_vars(ScraperNext)

-----------------------------------------------------------------------------
(* Properties: the reservation page scraper *)

\* the reservation ids of a record list, in order
IdsOf(recs) == [i \in 1..Len(recs) |-> recs[i].reservationId]
\* no element occurs twice
NoRepeat(seq) == \A i, j \in 1..Len(seq) : i # j => seq[i] # seq[j]

\* C1: within one invocation of processReservationsPage, whatever page scans,
\* next-page clicks and reloads happen, the emitted records (the list being
\* built and the list returned) never hold two records with the same
\* reservationId
C1_NoDuplicateIds ==
  /\ NoRepeat(IdsOf(pageReservations))
  /\ NoRepeat(IdsOf(returned))

\* both ids have a record, the scan is on the second page and has just met an
\* id again
C1_Witness ==
  /\ Len(pageReservations) = 2
  /\ currentPage = 2
  /\ logged = LogDuplicate

\* C2: whenever an exception reaches the row's catch after the basic fields
\* were read, that step emits one degraded record and the row loop goes on
\* with the next row
C2_DegradedRecordEmitted ==
  [][(pc = "rowCatch" /\ basicData # Null)
       => /\ Len(pageReservations') = Len(pageReservations) + 1
          /\ pc' = "row"
          /\ rowIdx' = rowIdx + 1]_vars

\* C3: every invocation of processReservationsPage eventually returns
C3_EventuallyReturns == <>(pc = "returned")

\* C7: when the dialog of a row does not appear within the wait, the row is
\* skipped without an exception: no record is added, nothing reaches a catch,
\* and the scan stands at the next row of the same page
C7_DialogTimeoutSkipsRow ==
  [][(pc = "dialogWait" /\ logged' = LogDialogTimeout)
       => /\ pc' = "row"
          /\ rowIdx' = rowIdx + 1
          /\ rows' = rows
          /\ currentPage' = currentPage
          /\ pageReservations' = pageReservations]_vars

\* the first of two rows timed out and the second is about to be processed
C7_Witness ==
  /\ logged = LogDialogTimeout
  /\ pc = "row"
  /\ Len(rows) = 2
  /\ rowIdx = 2

\* C8: every row whose opened dialog is a cancellation dialog ends with a
\* record that has hasCardInfo = false, status = "Cancelled" and
\* reasonOfCharge = "Cancellation Fee"
C8_CancelledDialogRecord ==
  [][(dialog # NoDialog /\ dialog.cancelled /\ pc' \in {"row", "rowCatch"})
       => /\ pc' = "row"
          /\ Len(pageReservations') = 1
          /\ ~GetBool(pageReservations'[1], "hasCardInfo")
          /\ Get(pageReservations'[1], "status") = "Cancelled"
          /\ Get(pageReservations'[1], "reasonOfCharge") = "Cancellation Fee"]_vars

\* remaining if non-empty, else refund if non-empty, else "N/A"
Resolved(rem, ref) ==
  IF rem \notin {"", NullStr} THEN rem
  ELSE IF ref \notin {"", NullStr} THEN ref ELSE "N/A"
\* the reason that corresponds to Resolved
ResolvedReason(rem, ref) ==
  IF rem \notin {"", NullStr} THEN "Remaining Amount to Charge"
  ELSE IF ref \notin {"", NullStr} THEN "Amount to Refund" ELSE "N/A"
\* the step that pushes the record of a non-cancelled dialog
PushesNormal == pc = "push" /\ pc' = "row" /\ ~dialog.cancelled
Pushed == pageReservations'[Len(pageReservations')]

\* C9 as stated: the record pushed for a non-cancelled dialog has
\* amountToChargeOrRefund = remaining, else refund, else "N/A", and the
\* corresponding reasonOfCharge
C9_AsStated ==
  [][PushesNormal
       => /\ Pushed.amountToChargeOrRefund
               = Resolved(remainingAmountToCharge, amountToRefund)
          /\ Get(Pushed, "reasonOfCharge")
               = ResolvedReason(remainingAmountToCharge, amountToRefund)]_vars

\* C9: in the name-keyed program the record pushed for a non-cancelled dialog
\* has amountToChargeOrRefund = remaining, else refund, else "N/A", and the
\* corresponding reasonOfCharge; in the id-keyed program the card's
\* additional text, when a card with such a text was read, comes first, and
\* the record has no reasonOfCharge
C9_AmountResolution ==
  [][PushesNormal
       => IF variant = "name"
          THEN /\ Pushed.amountToChargeOrRefund
                    = Resolved(remainingAmountToCharge, amountToRefund)
               /\ Get(Pushed, "reasonOfCharge")
                    = ResolvedReason(remainingAmountToCharge, amountToRefund)
          ELSE /\ Pushed.amountToChargeOrRefund
                    = IF cardData # Null /\ cardData.additionalText # ""
                      THEN cardData.additionalText
                      ELSE Resolved(remainingAmountToCharge, amountToRefund)
               /\ "reasonOfCharge" \notin DOMAIN Pushed]_vars

\* a record whose amount is the refund, the remaining amount being empty
C9_Witness ==
  /\ pc = "row"
  /\ Len(pageReservations) = 1
  /\ pageReservations[1].amountToChargeOrRefund = "7.00"
  /\ pageReservations[1].remainingAmountToCharge = "N/A"

-----------------------------------------------------------------------------
(* Properties: getDataFromSheet *)

\* the Reservation ID values of the rows of property key, in row order
RECURSIVE RowsOfProperty(_, _)
RowsOfProperty(sh, key) ==
  IF sh = <<>> THEN <<>>
  ELSE (IF Head(sh).prop = key THEN <<Head(sh).res>> ELSE <<>>)
         \o RowsOfProperty(Tail(sh), key)

\* the distinct non-empty property keys, ordered by first appearance
RECURSIVE FirstSeen(_, _)
FirstSeen(sh, seen) ==
  IF sh = <<>> THEN <<>>
  ELSE IF Head(sh).prop = "" \/ Head(sh).prop \in seen
       THEN FirstSeen(Tail(sh), seen)
       ELSE <<Head(sh).prop>> \o FirstSeen(Tail(sh), seen \cup {Head(sh).prop})

\* C4: each WorkItem's idList holds the Reservation ID values of exactly the
\* rows of its property, in row order, duplicates kept
C4_IdListInRowOrder ==
  pc = "item" =>
    \A i \in 1..Len(hotels) : hotels[i].idList = RowsOfProperty(sheet, hotels[i].key)

\* three rows of one property with ids A, A, B
C4_Witness ==
  /\ pc = "item"
  /\ Len(hotels) = 1
  /\ hotels[1].idList = <<"A", "A", "B">>

\* C5: the WorkItems are exactly the distinct non-empty property keys of the
\* sheet, in order of first appearance
C5_OneItemPerKey ==
  (pc = "item" /\ sheet # Unreadable) =>
    [i \in 1..Len(hotels) |-> hotels[i].key] = FirstSeen(sheet, {})

-----------------------------------------------------------------------------
(* Properties: the run *)

\* C6: a search that shows zero rows returns the empty list and raises
\* nothing; the run then goes on with the next search term of the property,
\* and after the last term with the next property
C6_ZeroRowsContinue ==
  [][/\ (pc = "search" /\ logged' = LogNoRows)
          => (pc' = "returned" /\ returned' = <<>> /\ outcome' = "running"
              /\ browser' = browser /\ allReservations' = allReservations)
     /\ (pc = "returned" /\ logged = LogNoRows)
          => (pc' = "chunk" /\ chunkIdx' = chunkIdx + 1 /\ itemIdx' = itemIdx
              /\ allReservations' = allReservations /\ outcome' = "running")
     /\ (pc = "chunk" /\ chunkIdx > Len(hotels[itemIdx].idList))
          => (pc' = "navHome" /\ outcome' = "running")
     /\ pc = "navHome"
          => (pc' = "item" /\ itemIdx' = itemIdx + 1 /\ outcome' = "running")]_vars

\* the first of the two terms of a property showed zero rows
C6_Witness ==
  /\ pc = "returned"
  /\ logged = LogNoRows
  /\ returned = <<>>
  /\ Len(hotels[itemIdx].idList) = 2
  /\ chunkIdx = 1

\* C10: the export step of a run that ends normally writes no file for 0
\* records, and for N > 0 records a file of N + 1 rows: the header, then one
\* row per record in the order of the records
C10_ExportRows ==
  [][(pc = "export" /\ outcome' = "returned")
       => IF Len(allReservations) = 0
          THEN file' = NoFile
          ELSE /\ Len(file') = Len(allReservations) + 1
               /\ file'[1] = Header(variant)
               /\ \A i \in 1..Len(allReservations) :
                    file'[i + 1] = ExportRow(variant, allReservations[i])]_vars

\* a run that exported two different records
C10_Witness ==
  /\ outcome = "returned"
  /\ Len(allReservations) = 2
  /\ allReservations[1] # allReservations[2]
  /\ Len(file) = 3

\* C11: the spreadsheet is written at most once per run, by the export step
\* that follows the last search term of the last WorkItem; a run that raised
\* has written no spreadsheet, whatever it had scraped
C11_ExportOnceAtEnd ==
  /\ [][file' # file
          => /\ pc = "export"
             /\ file = NoFile
             /\ itemIdx > Len(hotels)
             /\ outcome' = "returned"]_vars
  /\ [](outcome = "raised" => file = NoFile)

\* a run that raised with records in memory
C11_Witness ==
  /\ outcome = "raised"
  /\ Len(allReservations) > 0
  /\ file = NoFile

\* the positions of the login steps that follow the launch of the browser
LoginPcs == {"loginPage", "password", "passcodeWait", "fetchCode", "submit", "postLogin"}
\* the step that follows each of them
AfterLogin(p) ==
  CASE p = "loginPage" -> "password"
    [] p = "password" -> "passcodeWait"
    [] p = "passcodeWait" -> "fetchCode"
    [] p = "fetchCode" -> "submit"
    [] p = "submit" -> "postLogin"
    [] p = "postLogin" -> "getData"

\* the login goes on with the following step
LoginGoesOn == pc' = AfterLogin(pc) /\ outcome' = "running"
\* the run ends: browser closed, error raised, nothing searched or written
LoginEndsRun ==
  /\ pc' = "done"
  /\ outcome' = "raised"
  /\ error' # NullStr
  /\ browser' = "closed"
  /\ hotels' = <<>>
  /\ itemIdx' = 0
  /\ file' = NoFile
\* a run that raised does nothing more
RaisedStays ==
  /\ outcome' = "raised"
  /\ error' = error
  /\ browser' = browser
  /\ file' = file
  /\ itemIdx' = itemIdx
  /\ chunkIdx' = chunkIdx

\* C12: a login step either goes on to the following step or ends the run
\* there (no step is taken again): the browser is closed, the error is
\* raised, no property was searched and no spreadsheet is written, and the
\* run does nothing more
C12_LoginFailureEndsRun ==
  /\ [][(pc \in LoginPcs) => (LoginGoesOn \/ LoginEndsRun)]_vars
  /\ [][outcome = "raised" => RaisedStays]_vars

\* the run ended at the code retrieval
C12_Witness ==
  /\ outcome = "raised"
  /\ error = ErrNoCode
  /\ browser = "closed"
  /\ itemIdx = 0
  /\ pc = "done"

\* the step failed to resolve the property or to open its Reservations section
PropertyStepFailed ==
  /\ pc \in {"item", "openReservations"}
  /\ outcome' = "raised" \/ logged' = ConsoleNavError

\* C13: a failure while resolving a property or opening its Reservations
\* section ends the whole run with the browser closed, and /api/expedia
\* answers success = false
C13_PropertyFailureEndsRun ==
  /\ [][PropertyStepFailed
          => (pc' = "done" /\ outcome' = "raised" /\ browser' = "closed")]_vars
  /\ []((pc = "responded" /\ outcome = "raised") => ~response.success)

\* C14: whatever happens on the way back to the property list (logo missing
\* or not clickable; id variant: the direct navigation failing too), the run
\* does not abort and stands at the next WorkItem
C14_NavHomeFailureLogged ==
  [][pc = "navHome"
       => /\ pc' = "item"
          /\ itemIdx' = itemIdx + 1
          /\ outcome' = "running"
          /\ browser' = "open"
          /\ allReservations' = allReservations]_vars

\* logo and direct navigation failed after the first of two properties
C14_Witness ==
  /\ logged = LogHomeFail
  /\ pc = "item"
  /\ itemIdx = 2
  /\ Len(hotels) = 2
  /\ outcome = "running"

-----------------------------------------------------------------------------
(* Properties: page-level recovery *)

\* C15: after an exception while processing page p the scraper reloads and
\* scans again with the page counter still p and with the records and the
\* dedup set kept; the search term is not aborted
C15_ReloadKeepsProgress ==
  [][pc = "pageCatch"
       => /\ pc' = "page"
          /\ currentPage' = currentPage
          /\ pageReservations' = pageReservations
          /\ processedReservationIds' = processedReservationIds]_vars

-----------------------------------------------------------------------------
(* Properties: getVerificationCode *)

\* a 6-to-10-digit number standing as a word of its own
IsCode(w) == w.others = 0 /\ w.digits \in 6..10
\* the message has a snippet with such a number
HasCode(msg) ==
  ~msg.getThrows /\ msg.snippet # NoSnippet
    /\ \E k \in 1..Len(msg.snippet) : IsCode(msg.snippet[k])
\* the first such number of a snippet
FirstNumber(snip) ==
  snip[CHOOSE k \in 1..Len(snip) : IsCode(snip[k]) /\ \A l \in 1..(k - 1) : ~IsCode(snip[l])].text
\* the messages that are fetched: up to the earliest one with a number
Fetched(ib) ==
  {i \in 1..Len(ib.messages) : \A j \in 1..(i - 1) : ~HasCode(ib.messages[j])}
\* an error happens: the list call, a fetch, or the scan of a missing snippet
ErrorReached(ib) ==
  \/ ib.listThrows
  \/ \E i \in Fetched(ib) : ib.messages[i].getThrows \/ ib.messages[i].snippet = NoSnippet
\* the code retrieval is over
CodeFetched == pc \in {"submit", "done"}

\* C16: when no error happens, getVerificationCode returns the first
\* 6-to-10-digit word-bounded number of the earliest listed message that has
\* one, and null when there is no message or no snippet has one
C16_FirstCodeInListingOrder ==
  (CodeFetched /\ ~ErrorReached(inbox))
    => IF \E i \in 1..Len(inbox.messages) : HasCode(inbox.messages[i])
       THEN \E i \in 1..Len(inbox.messages) :
              /\ HasCode(inbox.messages[i])
              /\ \A j \in 1..(i - 1) : ~HasCode(inbox.messages[j])
              /\ code = FirstNumber(inbox.messages[i].snippet)
       ELSE code = NullStr

\* the first message has 5- and 11-digit numbers only, the second has two codes
C16_Witness ==
  /\ CodeFetched
  /\ Len(inbox.messages) = 2
  /\ inbox.messages[1].snippet = <<W5, W11>>
  /\ inbox.messages[2].snippet = <<W6b, W6>>
  /\ code = "777777"

\* C17: getVerificationCode gives null whenever the list call, a message
\* fetch or the scan of a snippet fails, and on null the caller ends the run
\* with the code-not-found error
C17_ErrorsGiveNull ==
  [][pc = "fetchCode"
       => /\ ErrorReached(inbox') => code' = NullStr
          /\ code' = NullStr
               => (outcome' = "raised" /\ error' = ErrNoCode /\ pc' = "done")
          /\ code' # NullStr => (outcome' = "running" /\ pc' = "submit")]_vars

\* the fetch of the first message failed although the second holds a code
C17_Witness ==
  /\ outcome = "raised"
  /\ error = ErrNoCode
  /\ code = NullStr
  /\ Len(inbox.messages) = 2
  /\ inbox.messages[1].getThrows
  /\ HasCode(inbox.messages[2])

-----------------------------------------------------------------------------
(* Properties: the /api/expedia handler *)

\* the request lacks a credential or there is no token file
Rejected == ~request.email \/ ~request.password \/ request.token = "missing"
\* an answer given before any run (a rejected request, or a token file that
\* does not parse): failure, and no run was started
RejectedAnswer ==
  /\ Rejected \/ request.token = "corrupt"
  /\ ~response'.success
  /\ browser' = "none" /\ outcome' = "running" /\ hotels' = <<>> /\ file' = NoFile
\* the answer to a finished run
RunAnswer ==
  /\ pc = "done"
  /\ outcome \in {"returned", "raised"}
  /\ response'.success <=> outcome = "returned"
  /\ outcome = "raised" => (~response'.success /\ response'.message = error)
\* an answer ends the handler
Answered == response.sent => (pc = "responded" /\ pc' = "responded")

\* C18: the handler answers only after the run has finished, with success=true
\* exactly when the run returned and success=false with the error message when
\* it raised; a request without email or password or without a token file is
\* answered with success=false at once and no run is started
C18_AnswerAfterRun ==
  [][/\ (~response.sent /\ response'.sent)
          => IF pc = "request" THEN RejectedAnswer ELSE RunAnswer
     /\ (pc = "request" /\ Rejected) => (response'.sent /\ pc' = "responded")
     /\ Answered]_vars

\* a run that raised in the Reservations section has been answered
C18_Witness ==
  /\ response.sent
  /\ ~response.success
  /\ response.message = ErrReservations
  /\ outcome = "raised"
  /\ browser = "closed"

-----------------------------------------------------------------------------
(* Properties: the log cleanup *)

\* the entries of a document that are not older than one hour at time now
WithinHour(logs, now) == SelectSeq(logs, LAMBDA e : ~(e.timestamp < now - Hour))
\* the document without the entry the cleanup's own logger.info appended
BeforeOwnEntry(logs) == SubSeq(logs, 1, Len(logs) - 1)

\* C19: cleanupOldLogs removes exactly the entries older than one hour before
\* the current time and keeps every entry within the hour, in the original
\* relative order
C19_RemovesExactlyOlderThanHour ==
  [][logged' = LogCleaned
       => BeforeOwnEntry(logDoc') = WithinHour(logDoc, clock)]_vars

-----------------------------------------------------------------------------
(* Properties: the flags of a record *)

\* both flags of a record are set
BothFlags(res) == GetBool(res, "hasCardInfo") /\ GetBool(res, "hasPaymentInfo")
\* the record appended by the step
Pushed1 == pageReservations'[Len(pageReservations')]
\* the flags of the record pushed after the retry loop follow the two paths,
\* and a set flag comes with the fields of its path
FlagsFollowPaths ==
  /\ GetBool(Pushed1, "hasCardInfo") <=> cardData # Null
  /\ GetBool(Pushed1, "hasPaymentInfo") <=> paymentData # Null
  /\ GetBool(Pushed1, "hasCardInfo") => Get(Pushed1, "cardNumber") = dialog.cardNumber
  /\ GetBool(Pushed1, "hasPaymentInfo") => Get(Pushed1, "totalPayout") = dialog.totalPayout
\* the record of the cancellation branch has fixed flags
CancelledFlags ==
  ~GetBool(Pushed1, "hasCardInfo") /\ GetBool(Pushed1, "hasPaymentInfo")

\* C20 as stated: no record has hasCardInfo and hasPaymentInfo both true
C20_AsStated ==
  \A i \in 1..Len(pageReservations) : ~BothFlags(pageReservations[i])

\* C20: a record pushed after the retry loop has hasCardInfo true exactly
\* when the card path produced data and hasPaymentInfo true exactly when the
\* payment path produced data; the record of the cancellation branch has
\* hasCardInfo false and hasPaymentInfo true; in the name-keyed variant the
\* two flags are never both true, in the id-keyed variant they are both true
\* exactly when both paths produced data
C20_FlagsReflectPaths ==
  [][/\ (pc = "push" /\ pc' = "row") => FlagsFollowPaths
     /\ (pc = "cancelExtract" /\ pc' = "cancelClose") => CancelledFlags
     /\ variant = "name" => \A i \in 1..Len(pageReservations') :
                              ~BothFlags(pageReservations'[i])]_vars

\* the id-keyed variant pushed a record with card data and payment data
C20_Witness ==
  /\ variant = "id"
  /\ Len(pageReservations) = 1
  /\ BothFlags(pageReservations[1])
  /\ Truthy(Get(pageReservations[1], "cardNumber"))
  /\ Truthy(Get(pageReservations[1], "totalPayout"))

-----------------------------------------------------------------------------
(* Properties: the payment-data path *)

\* one of the four labelled values is non-empty in the dialog
AnyOfFour(d) ==
  Truthy(d.totalGuestPayment) \/ Truthy(d.expediaCompensation)
    \/ Truthy(d.totalPayout) \/ Truthy(d.cancelFee)
\* the values each variant asks for
AskedFor(v, d) ==
  IF v = "name" THEN Truthy(d.totalGuestPayment)
  ELSE Truthy(d.cancelFee) \/ Truthy(d.expediaCompensation) \/ Truthy(d.totalPayout)
\* the payment evaluate ran to its end on a row without card data
PaymentPathRan == pc = "exPay" /\ pc' = "exSide" /\ cardData = Null
\* a record of a row without card data is pushed after the retry loop
PushedNoCard == pc = "push" /\ pc' = "row" /\ cardData = Null

\* C21 as stated: without card data the payment path gives data, and the
\* record hasPaymentInfo=true, exactly when one of the four values is non-empty
C21_AsStated ==
  [][/\ PaymentPathRan => (paymentData' # Null <=> AnyOfFour(dialog))
     /\ PushedNoCard => (GetBool(Pushed1, "hasPaymentInfo") <=> paymentData # Null)]_vars

\* C21: without card data the payment path gives data exactly when the value
\* the variant asks for is non-empty ("Total guest payment" in the name-keyed
\* variant; one of "Cancellation fee", "Expedia compensation", "Your total
\* payout" in the id-keyed variant); the record has hasPaymentInfo=true exactly
\* when the path gave data, and then one of the four values is non-empty
C21_PaymentInfoByVariant ==
  [][/\ PaymentPathRan => (paymentData' # Null <=> AskedFor(variant, dialog))
     /\ PushedNoCard => (GetBool(Pushed1, "hasPaymentInfo") <=> paymentData # Null)
     /\ PushedNoCard => (GetBool(Pushed1, "hasPaymentInfo") => AnyOfFour(dialog))]_vars

\* the id-keyed variant is about to push a record for a dialog that shows a
\* guest payment but none of the three values it asks for
C21_Witness ==
  /\ pc = "push"
  /\ variant = "id"
  /\ cardData = Null /\ paymentData = Null
  /\ ~dialog.evc
  /\ Truthy(dialog.totalGuestPayment)
  /\ ~AskedFor(variant, dialog)

-----------------------------------------------------------------------------
(* Properties: closing the detail dialog *)

\* the strategy sequence is left while strategies remain
LeftEarly == pc = "cancelClose" /\ closeIdx < NumClosingMethods /\ pc' # "cancelClose"
\* the close of a dialog after the retry loop
PlainClose == pc = "close"

\* C22: every opened dialog is closed through the four strategies in their
\* order; the sequence stops before the last strategy only on a verified
\* success, and a warning with the next row following is what happens when no
\* strategy is verified
C22_CloseStrategiesInOrder ==
  [][/\ LeftEarly => (logged' # LogCancelWarn /\ pc' = "row")
     /\ PlainClose => (closeIdx' = 1 /\ pc' = "cancelClose")]_vars

-----------------------------------------------------------------------------
(* Properties: the card-activity tab *)

\* C23: a card-activity tab exists only while its own row's lookup is under
\* way: one tab during the lookup, none before and after, whatever the lookup
\* met
C23_NoTabLeftOpen ==
  IF pc = "cardTab" THEN tabs = 1 ELSE tabs = 0

-----------------------------------------------------------------------------
(* Properties: the search form and the pagination summary *)

\* C24: the pagination summary decides nothing but a log line: whatever it
\* reads (a number, a text without "of N Results", no summary element), the
\* session goes on to scan page 1 with nothing returned yet
C24_SummaryOnlyLogged ==
  [][pc = "total"
       => /\ pc' = "page"
          /\ currentPage' = 1
          /\ returned' = returned
          /\ pageReservations' = pageReservations]_vars

\* C25: the first candidate selector with a visible match is the search
\* field, the term is typed into that field whichever candidate it is, and
\* the search-input-not-found error is what ends the session exactly when no
\* candidate matches
C25_TermIntoMatchedField ==
  [][pc = "search"
       => /\ searchInput' = 0 <=> logged' = LogNoSearchInput
          /\ searchInput' # 0 => typedInto' = searchInput']_vars

-----------------------------------------------------------------------------
(* Properties: the password page *)

\* C26: #passwordControl is used only when #password-input is not on the
\* page; the field-not-found error is raised exactly when neither is there;
\* and the submit control is the one of the field that matched
C26_PasswordFieldProbe ==
  [][pc = "password"
       => /\ passwordEntry'.field = "#passwordControl" => ~passwordEntry'.a
          /\ (outcome' = "raised" /\ error' = ErrPassword)
               <=> (~passwordEntry'.a /\ ~passwordEntry'.b)
          /\ passwordEntry'.field = "#password-input"
               => passwordEntry'.submit = "#password-continue"
          /\ passwordEntry'.field = "#passwordControl"
               => passwordEntry'.submit = "#signInButton"]_vars

-----------------------------------------------------------------------------
(* Properties: pagination *)

\* the rows of a page are finished and the step met no exception
PageFinished == pc = "pageEnd" /\ pc' # "pageCatch"
\* the loop ends and the function returns what it collected
LoopDone == pc' = "returned" /\ returned' = pageReservations
\* the next page is the one to scan, with the counter one higher
NextPage == pc' = "page" /\ currentPage' = currentPage + 1

\* C27: once the rows of a page are finished the loop ends exactly when the
\* next control is absent or disabled; otherwise the next page is scanned with
\* the page counter one higher; the counter changes nowhere else in the loop
C27_PaginationStep ==
  [][/\ PageFinished
          => IF nextControl' \in {"absent", "disabled"} THEN LoopDone ELSE NextPage
     /\ (pc \in {"page", "row", "pageCatch"} /\ pc' \in {"page", "row", "pageEnd"})
          => currentPage' = currentPage]_vars

\* the second page is about to be scanned after a click on the next control
C27_Witness ==
  /\ pc = "page"
  /\ currentPage = 2
  /\ nextControl = "enabled"
  /\ Len(pageReservations) >= 1

-----------------------------------------------------------------------------
(* Properties: the accumulator *)

\* the list a call returned is put behind what the accumulator holds
ChunkAppended ==
  /\ pc = "returned"
  /\ allReservations' = allReservations \o returned
  /\ chunkIdx' = chunkIdx + 1
  /\ itemIdx' = itemIdx
\* the work list is gone through in its order: term by term, item by item
InOrder ==
  /\ itemIdx' \in {itemIdx, itemIdx + 1}
  /\ (pc = "openReservations" /\ pc' = "chunk") => chunkIdx' = 1
  /\ pc \in {"chunk", "returned"}
       => (itemIdx' = itemIdx /\ chunkIdx' \in {chunkIdx, chunkIdx + 1})

\* C28: the accumulator starts empty and changes only by getting the list a
\* processReservationsPage call returned appended, call after call in the
\* order of the work items and of their search terms; what it holds is never
\* removed, reordered or changed
C28_AccumulatorAppendOnly ==
  [][/\ pc = "request" => allReservations = <<>>
     /\ pc = "returned" => ChunkAppended
     /\ pc # "returned" => allReservations' = allReservations
     /\ InOrder]_vars

\* the records of two calls, made for two work items, are in the accumulator
C28_Witness ==
  /\ itemIdx = 2
  /\ pc = "chunk"
  /\ chunkIdx = 2
  /\ Len(allReservations) = 2

-----------------------------------------------------------------------------
(* Properties: entering a property *)

\* C29: the Reservations section is looked for only in the property whose
\* name (name-keyed) or id (id-keyed) is the work item's key
C29_EntersOnlyTheKeyedProperty ==
  [][(pc = "item" /\ pc' = "openReservations")
       => entered' = hotels[itemIdx].key]_vars

-----------------------------------------------------------------------------
(* Properties: the reservation id as a key of the run's result *)

\* C30: no two records of the run's result carry the same reservationId
C30_ReservationIdIsKey ==
  \A i, j \in 1..Len(allReservations) :
    allReservations[i].reservationId = allReservations[j].reservationId => i = j

-----------------------------------------------------------------------------
(* Properties: the single fetch of the verification code *)

\* the fetch is made from the position after the 2FA field was awaited
FetchAfterWait ==
  /\ (pc' = "fetchCode" /\ pc # "fetchCode") => (pc = "passcodeWait" /\ outcome' = "running")
  /\ fetches' # fetches => (pc = "fetchCode" /\ fetches = 0 /\ fetches' = 1)
\* no code: the run fails there and then, the 2FA field untouched
NoCodeIsFatal ==
  (pc = "fetchCode" /\ Falsy(code'))
    => (pc' = "done" /\ outcome' = "raised" /\ error' = ErrNoCode /\ passcode' = "")
\* nothing but the fetched code goes into the 2FA field, and only after the fetch
TypedAfterFetch ==
  passcode' # passcode => (pc = "submit" /\ fetches = 1 /\ passcode' = code /\ Truthy(code))

\* C31: getVerificationCode is called at most once in a run, only after the
\* wait for the 2FA field and the grace delay; when it returns nothing the run
\* fails with the code-not-found error, with no second fetch and nothing typed
\* into the 2FA field
C31_SingleFetch ==
  [][FetchAfterWait /\ NoCodeIsFatal /\ TypedAfterFetch]_vars

\* a run that failed for want of a code, after its one fetch
C31_Witness ==
  /\ pc = "done" /\ error = ErrNoCode
  /\ fetches = 1 /\ passcode = ""
  /\ Falsy(code)

-----------------------------------------------------------------------------
(* Properties: the work list is not touched after it was built *)

\* the work list changes only where getDataFromSheet returns it
WorkListKept ==
  /\ sheet' = sheet
  /\ hotels' = IF pc = "getData" THEN getDataFromSheet(sheet) ELSE hotels

\* C32: after getDataFromSheet returned, no step adds, removes or reorders a
\* work item or a term of an idList; at the export the work list is the one
\* built at the start
C32_WorkListImmutable ==
  /\ [][WorkListKept]_vars
  /\ [](pc \in {"export", "done"} /\ browser # "none" /\ itemIdx > 0
          => hotels = getDataFromSheet(sheet))

\* the export is reached after both terms of an item were searched
C32_Witness ==
  /\ pc = "export"
  /\ Len(hotels) = 1 /\ Len(hotels[1].idList) = 2
  /\ itemIdx = 2 /\ chunkIdx = 3

-----------------------------------------------------------------------------
(* Properties: what processReservationsPage returns after a failure *)

\* C33: processReservationsPage always returns, and the list it returns holds
\* every record the session had accumulated, also when it ends on a failure
\* that no row or page handler took care of
C33_ReturnKeepsRecords ==
  [][(pc # "returned" /\ pc' = "returned") => returned' = pageReservations]_vars

-----------------------------------------------------------------------------
(* Properties: the browser at the end of a run *)

\* C34: when loginToExpediaPartner has finished, by returning or by raising,
\* the browser it launched is closed
C34_BrowserClosedAtEnd ==
  outcome \in {"returned", "raised"} => browser # "open"

-----------------------------------------------------------------------------
(* Properties: the bound of the extraction loop *)

\* C35: the extraction loop of a row runs its body at most three times,
\* also when no attempt throws and none finds card or payment data
C35_AtMostThreeAttempts ==
  attempts <= MaxRetries

-----------------------------------------------------------------------------
(* Properties: the dedup set and the rows opened *)

\* every emitted record's id is in the dedup set
EmittedInSet ==
  \A i \in 1..Len(pageReservations) :
    pageReservations[i].reservationId \in processedReservationIds
\* from the click on the guest name to the end of the row, the row's id is in
\* the dedup set
OpenedInSet ==
  pc \in {"click", "dialogWait", "isCanceled", "scroll", "close", "push"}
    => basicData.reservationId \in processedReservationIds
\* a dialog is opened only for an id that was not in the set, which is added
\* on the spot; within the session the set never shrinks
OpensOnlyNewIds ==
  /\ (pc' = "click" /\ pc # "click")
       => /\ pc = "row"
          /\ basicData'.reservationId \notin processedReservationIds
          /\ processedReservationIds' = processedReservationIds \cup {basicData'.reservationId}
  /\ (pc \notin {"search", "chunk"} /\ pc' # "returned")
       => processedReservationIds \subseteq processedReservationIds'
\* a record is emitted only for the row in hand
EmitsRowInHand ==
  Len(pageReservations') > Len(pageReservations)
    => /\ Len(pageReservations') = Len(pageReservations) + 1
       /\ pageReservations'[Len(pageReservations')].reservationId = basicData.reservationId

\* C36: a reservation id is put into the dedup set before its dialog is
\* opened, so the ids of the emitted records are always in the set; a row
\* whose id is in the set is never opened again in the session, so a row
\* skipped on a dialog timeout or lost to an error never gets a record
C36_DedupBeforeOpen ==
  /\ [](EmittedInSet /\ OpenedInSet)
  /\ [][OpensOnlyNewIds /\ EmitsRowInHand]_vars

\* on the second page a row is skipped as a duplicate although its id has no
\* record
C36_Witness ==
  /\ logged = LogDuplicate
  /\ currentPage = 2
  /\ rowIdx > 1
  /\ BasicDataOf(rows[rowIdx - 1]).reservationId \in processedReservationIds
  /\ \A i \in 1..Len(pageReservations) :
       pageReservations[i].reservationId # BasicDataOf(rows[rowIdx - 1]).reservationId

-----------------------------------------------------------------------------
(* Properties: one password field per login attempt *)

\* C37: in one login attempt the password goes into at most one of the two
\* password fields, and #passwordControl is handled only when #password-input
\* never appeared
C37_OnePasswordField ==
  [][pc = "password"
       => /\ Cardinality(passwordEntry'.typed) <= 1
          /\ "#passwordControl" \in passwordEntry'.typed => ~passwordEntry'.a]_vars

-----------------------------------------------------------------------------
(* Properties: one run at a time *)

\* the requests whose run is in progress
Active == {i \in 1..MaxRequests : runs[i] \in {"launching", "login", "scraping"}}

\* C38: at most one scraping run is in progress at any time
C38_OneRunAtATime ==
  Cardinality(Active) <= 1

-----------------------------------------------------------------------------
(* Properties: a sheet that gives no work *)

\* the sheet cannot be read, is empty, or no row of it has a property key
NoUsableRow(sh) == sh = Unreadable \/ \A i \in 1..Len(sh) : Falsy(sh[i].prop)

\* getDataFromSheet returns, and returns [] for such a sheet
SheetStepReturns ==
  pc = "getData"
    => /\ pc' = "item" /\ outcome' = "running"
       /\ NoUsableRow(sheet) => hotels' = <<>>
\* from then on: no property entered, no record, no file, no error, and the
\* answer, once sent, reports success
NothingDone ==
  (NoUsableRow(sheet) /\ itemIdx >= 1)
    => /\ hotels = <<>> /\ allReservations = <<>> /\ returned = <<>>
       /\ entered = "" /\ file = NoFile
       /\ pc \in {"item", "export", "done", "responded"}
       /\ outcome # "raised" /\ error = NullStr
       /\ response.sent => (response.success /\ response.status = 200)

\* C39: when the sheet cannot be read or has no usable row, getDataFromSheet
\* returns an empty work list without raising; the run, already logged in,
\* enters no property, writes no spreadsheet and the caller is told of success
C39_EmptySheetSucceeds ==
  /\ [][SheetStepReturns]_vars
  /\ []NothingDone

\* a run over a sheet of one row without a key was answered
C39_Witness ==
  /\ sheet = BlankSheet
  /\ pc = "responded"
  /\ itemIdx = 1
  /\ response.sent /\ response.success

====
